---- MODULE Spec2Model ----
(***************************************************************************)
(* A model of the kip compiler front end (compiler/src): the intermediate  *)
(* code optimizer (codegen/optimize.rs, codegen/mod.rs) and the recursive  *)
(* descent parser (parser/mod.rs, parser/expr.rs, parser/stmt.rs).         *)
(***************************************************************************)
EXTENDS Integers, Sequences, FiniteSets, TLC

VARIABLES
    instructions,      \* CodeGenerator.instructions: the list handed to optimize()
    opt_in,            \* the list the running application of optimize() reads
    opt_idx,           \* index of the next instruction optimize() visits
    available_exprs,   \* elim_common_subexprs: HashMap<Symbol, Expr> of the block
    new_instructions,  \* optimize(): the Vec being built
    once,              \* the result of the first application of optimize()
    opt_state,         \* "run1" | "run2" | "done" | "idle"
    tokens,            \* Parser.tokens
    current,           \* Parser.current
    decls,             \* Parser::parse: the Vec of results
    pstate,            \* "parsing" | "done" | "panicked" | "idle"
    scopes,            \* ScopeChecker.scopes: Vec<HashMap<Symbol, bool>>
    diagnostics,       \* what the scope checker printed with eprintln!
    frames,            \* the calls of the scope checker that have not returned
    sc_state,          \* "checking" | "done" | "panicked" | "idle"
    tmp_var,           \* CodeGenerator.tmp_var
    tmp_label,         \* CodeGenerator.tmp_label
    gen_frames,        \* the calls of the code generator that have not returned
    returned,          \* the Option<Symbol> the call that returned last handed back
    gen_state,         \* "generating" | "done" | "panicked" | "idle"
    input,             \* Lexer.input.contents, one character per element
    lex_start,         \* Lexer.start
    lex_current,       \* Lexer.current
    lex_tokens,        \* Lexer.tokens
    lex_state          \* "lexing" | "done" | "idle"

vars == <<instructions, opt_in, opt_idx, available_exprs, new_instructions,
          once, opt_state, tokens, current, decls, pstate,
          scopes, diagnostics, frames, sc_state,
          tmp_var, tmp_label, gen_frames, returned, gen_state,
          input, lex_start, lex_current, lex_tokens, lex_state>>

optVars == <<instructions, opt_in, opt_idx, available_exprs, new_instructions,
             once, opt_state>>
parseVars == <<tokens, current, decls, pstate>>
scopeVars == <<scopes, diagnostics, frames, sc_state>>
genVars == <<tmp_var, tmp_label, gen_frames, returned, gen_state>>
lexVars == <<input, lex_start, lex_current, lex_tokens, lex_state>>
\* the lexer, the scope checker and the code generator
frontVars == <<scopeVars, genVars, lexVars>>

(***************************************************************************)
(* Bounds of the model.                                                    *)
(***************************************************************************)
MaxInstrs == 3
\* the longest token sequence (Eof not counted) drawn from TokenAlphabet
MaxTokens == 3
\* the most binary operators in a chain `a op b op c ...`
MaxOps == 2
\* the most targets in a chain `x1 = x2 = ... = e;`
MaxChain == 3

(***************************************************************************)
(* Intermediate code (codegen/ic.rs).                                      *)
(***************************************************************************)
PVar(name) == [k |-> "Var", v |-> name]
PConst(c) == [k |-> "Const", v |-> c]
NoPrimary == [k |-> "None"]

ECall(name) == [kind |-> "Call", name |-> name]
EBinary(op, lhs, rhs) == [kind |-> "Binary", bop |-> op, lhs |-> lhs, rhs |-> rhs]
EPrimary(p) == [kind |-> "Primary", p |-> p]

ILabel(name) == [op |-> "Label", name |-> name]
IAssign(dest, expr) == [op |-> "Assign", dest |-> dest, expr |-> expr]
IGoto(label) == [op |-> "Goto", label |-> label]
IIfz(cond, label) == [op |-> "Ifz", cond |-> cond, label |-> label]
IArg(value) == [op |-> "Arg", value |-> value]
IRet(value) == [op |-> "Ret", value |-> value]

is_ifz(i) == i.op = "Ifz"
is_label(i) == i.op = "Label"

\* The closure optimize() hands to split_inclusive: a block ends after
\* (and includes) every Ifz and every Label.
KeepsMapAfterLabel(i) == is_ifz(i)
is_block_end(i) == is_ifz(i) \/ is_label(i)

(***************************************************************************)
(* elim_common_subexprs (codegen/optimize.rs).                             *)
(***************************************************************************)
EmptyMap == [s \in {} |-> NoPrimary]

\* HashMap::insert: the entry of `symbol` is created or overwritten.
insert(map, symbol, expr) ==
    [s \in (DOMAIN map) \cup {symbol} |-> IF s = symbol THEN expr ELSE map[s]]

\* The Assign built at optimize.rs:17-20.
RewriteToSource(symbol, available_symbol) ==
    IAssign(available_symbol, EPrimary(PVar(symbol)))
RewriteTo(symbol, available_symbol) ==
    IAssign(symbol, EPrimary(PVar(available_symbol)))

\* The instructions the inner loop (optimize.rs:15-22) can leave in
\* optimized_instruction. The loop walks the HashMap in its iteration order,
\* which std's RandomState leaves unspecified, and every matching entry
\* overwrites the result: the entry visited last wins, and that may be any
\* of the matching entries.
Optimized(instruction, available) ==
    IF instruction.op = "Assign"
    THEN LET matching == {s \in DOMAIN available : available[s] = instruction.expr}
         IN IF matching = {} THEN {instruction}
            ELSE {RewriteTo(instruction.dest, s) : s \in matching}
    ELSE {instruction}

\* available_exprs after the iteration (optimize.rs:23): the ORIGINAL expr is
\* recorded under the destination, whether or not the instruction was rewritten.
Recorded(instruction, available) ==
    IF instruction.op = "Assign"
    THEN insert(available, instruction.dest, instruction.expr)
    ELSE available

(***************************************************************************)
(* The inputs of the optimizer.                                            *)
(***************************************************************************)
Dests == {"x", "y", "z"}
Exprs == {EPrimary(PVar("a")), EPrimary(PVar("x")),
          EBinary("Add", PVar("a"), PVar("x")), ECall("f")}
InstrAlphabet ==
    {IAssign(d, e) : d \in Dests, e \in Exprs}
      \cup {ILabel("L"), IGoto("L"), IIfz(PVar("x"), "L"), IArg(PVar("x")),
            IRet(NoPrimary)}

SeqsUpTo(S, n) == UNION {[1..k -> S] : k \in 0..n}

ParserIdle ==
    /\ tokens = <<>>
    /\ current = 0
    /\ decls = <<>>
    /\ pstate = "idle"

ScopeIdle ==
    /\ scopes = <<>>
    /\ diagnostics = <<>>
    /\ frames = <<>>
    /\ sc_state = "idle"

GenIdle ==
    /\ tmp_var = 0
    /\ tmp_label = 0
    /\ gen_frames = <<>>
    /\ returned = [some |-> FALSE]
    /\ gen_state = "idle"

LexIdle ==
    /\ input = <<>>
    /\ lex_start = 0
    /\ lex_current = 0
    /\ lex_tokens = <<>>
    /\ lex_state = "idle"

FrontIdle == ScopeIdle /\ GenIdle /\ LexIdle

InitOpt ==
    /\ instructions \in SeqsUpTo(InstrAlphabet, MaxInstrs)
    /\ opt_in = instructions
    /\ opt_idx = 1
    /\ available_exprs = EmptyMap
    /\ new_instructions = <<>>
    /\ once = <<>>
    /\ opt_state = "run1"
    /\ ParserIdle
    /\ FrontIdle

(***************************************************************************)
(* CodeGenerator::optimize (codegen/mod.rs:157-168): one step is one       *)
(* iteration of the loop of elim_common_subexprs; the step that visits the *)
(* last instruction of a block (an Ifz or a Label) leaves the next block a *)
(* fresh, empty HashMap.                                                    *)
(***************************************************************************)
ElimStep ==
    /\ opt_state \in {"run1", "run2"}
    /\ opt_idx <= Len(opt_in)
    /\ LET instruction == opt_in[opt_idx]
       IN /\ \E optimized_instruction \in Optimized(instruction, available_exprs) :
                new_instructions' = Append(new_instructions, optimized_instruction)
          /\ available_exprs' =
                IF is_block_end(instruction) THEN EmptyMap
                ELSE Recorded(instruction, available_exprs)
    /\ opt_idx' = opt_idx + 1
    /\ UNCHANGED <<instructions, opt_in, once, opt_state, parseVars, frontVars>>

\* optimize() returns new_instructions; the result is handed to a second
\* application of optimize().
OptimizeAgain ==
    /\ opt_state = "run1"
    /\ opt_idx > Len(opt_in)
    /\ once' = new_instructions
    /\ opt_in' = new_instructions
    /\ new_instructions' = <<>>
    /\ available_exprs' = EmptyMap
    /\ opt_idx' = 1
    /\ opt_state' = "run2"
    /\ UNCHANGED <<instructions, parseVars, frontVars>>

OptimizeReturn ==
    /\ opt_state = "run2"
    /\ opt_idx > Len(opt_in)
    /\ opt_state' = "done"
    /\ UNCHANGED <<instructions, opt_in, opt_idx, available_exprs,
                   new_instructions, once, parseVars, frontVars>>

NextOpt == ElimStep \/ OptimizeAgain \/ OptimizeReturn

SpecOpt == InitOpt /\ [][NextOpt]_vars

(***************************************************************************)
(* Regions (ast/region.rs).                                                *)
(***************************************************************************)
Min(a, b) == IF a <= b THEN a ELSE b
Max(a, b) == IF a >= b THEN a ELSE b

Region_new(start, end) == [start |-> start, len |-> end - start]
Region_end(r) == r.start + r.len
Region_to(self, end) ==
    Region_new(Min(self.start, end.start), Max(Region_end(self), Region_end(end)))

(***************************************************************************)
(* Tokens (token.rs) and the cursor of the parser (parser/mod.rs).         *)
(* Positions are 1-based: `current` is Parser.current + 1.                 *)
(***************************************************************************)
\* `name` is the payload of Ident(Name) and of Literal(Lit), `lit` the variant of
\* the Lit ("Int", "Str", "Char"; "" when the token is no literal).
Token(kind, name, lit, region) ==
    [kind |-> kind, name |-> name, lit |-> lit, region |-> region]

\* What a read outside `tokens` yields; no rule of the grammar accepts it, and
\* the rule that has to consume it panics (index out of bounds).
OutOfBounds == Token("OutOfBounds", "", "", Region_new(0, 0))

InRange(p) == p \in 1..Len(tokens)
peek(p) == IF InRange(p) THEN tokens[p] ELSE OutOfBounds
look_ahead(p, n) == peek(p + n)
previous(p) == peek(p - 1)
is_eof(p) == peek(p).kind = "Eof"
check(p, kind) == peek(p).kind = kind
\* The cursor after eat(): eat() does not move past Eof.
EatPastEof(p) == p + 1
eat(p) == IF is_eof(p) THEN p ELSE p + 1
\* matches(kinds) is true, and has eaten the token, when this holds.
matches(p, kinds) == peek(p).kind \in kinds

to_bin_op(kind) ==
    CASE kind = "Plus" -> "Add"
      [] kind = "Minus" -> "Sub"
      [] kind = "Slash" -> "Div"
      [] kind = "Star" -> "Mul"
      [] kind = "BangEqual" -> "Ne"
      [] kind = "DoubleEqual" -> "Eq"
      [] kind = "Percent" -> "Mod"
      [] kind = "Gt" -> "Gt"
      [] kind = "Ge" -> "Ge"
      [] kind = "Lt" -> "Lt"
      [] kind = "Le" -> "Le"
      [] kind = "DoubleAmpersand" -> "And"
      [] kind = "DoubleBar" -> "Or"
      [] OTHER -> "None"

to_unary_op(kind) ==
    CASE kind = "Bang" -> "Not"
      [] kind = "Minus" -> "Neg"
      [] OTHER -> "None"

\* BinOp::get_prec (ast/op.rs).
get_prec(op) ==
    CASE op \in {"Mul", "Div", "Mod"} -> 40
      [] op \in {"Add", "Sub"} -> 20
      [] op \in {"Gt", "Ge", "Lt", "Le"} -> 10
      [] op \in {"Eq", "Ne"} -> 2
      [] op \in {"And", "Or"} -> 1

(***************************************************************************)
(* Results of the parsing functions: anyhow::Result<T> together with the   *)
(* cursor the call leaves behind, or a panic.                              *)
(***************************************************************************)
NoNode == [kind |-> "None"]
Ok(node, p) == [st |-> "ok", node |-> node, msg |-> "", pos |-> p]
Err(msg, p) == [st |-> "err", node |-> NoNode, msg |-> msg, pos |-> p]
Panic(p) == [st |-> "panic", node |-> NoNode, msg |-> "panic", pos |-> p]

expect(p, kind, message) ==
    IF ~InRange(p) THEN Panic(p)
    ELSE IF check(p, kind) THEN Ok(peek(p), eat(p))
    ELSE Err(message, p)

expect_ident(p, message) ==
    IF ~InRange(p) THEN Panic(p)
    ELSE IF peek(p).kind = "Ident" THEN Ok(peek(p), eat(p))
    ELSE Err(message, p)

\* Parser::sync: the cursor it leaves, or 0 when it panics.
RECURSIVE sync_loop(_)
sync_loop(p) ==
    IF ~InRange(p) THEN 0
    ELSE IF is_eof(p) THEN p
    ELSE IF ~InRange(p - 1) THEN 0
    ELSE IF previous(p).kind = "Semicolon" THEN p
    ELSE IF peek(p).kind \in {"Extern", "Func", "Var", "If", "Ret"} THEN p
    ELSE sync_loop(eat(p))

\* A sync that looks for a `;` only.
RECURSIVE SyncToSemicolon(_)
SyncToSemicolon(p) ==
    IF is_eof(p) \/ ~InRange(p) THEN p
    ELSE IF peek(p).kind = "Semicolon" THEN eat(p)
    ELSE SyncToSemicolon(eat(p))
sync(p) == IF ~InRange(p) THEN 0 ELSE sync_loop(eat(p))

(***************************************************************************)
(* The AST (ast/expr.rs, ast/stmt.rs).                                     *)
(***************************************************************************)
Variable(name, region) == [kind |-> "Variable", name |-> name, region |-> region]
Lit(lit, region) == [kind |-> "Lit", lit |-> lit, region |-> region]
Unary(op, rhs, region) == [kind |-> "Unary", uop |-> op, rhs |-> rhs, region |-> region]
Binary(op, lhs, rhs, region) ==
    [kind |-> "Binary", bop |-> op, lhs |-> lhs, rhs |-> rhs, region |-> region]
Call(fn_name, args, region) ==
    [kind |-> "Call", name |-> fn_name, args |-> args, region |-> region]
Cond(condition, then_branch, else_branch, region) ==
    [kind |-> "Cond", condition |-> condition, then_branch |-> then_branch,
     else_branch |-> else_branch, region |-> region]
Assign(name, value, region) ==
    [kind |-> "Assign", name |-> name, value |-> value, region |-> region]
is_cond(expr) == expr.kind = "Cond"

None == [some |-> FALSE]
Some(x) == [some |-> TRUE, val |-> x]

StmtExpr(expr, region) == [kind |-> "Expr", expr |-> expr, region |-> region]
StmtRet(value, region) == [kind |-> "Ret", expr |-> value, region |-> region]
StmtVar(name, init, region) ==
    [kind |-> "Var", name |-> name, expr |-> init, region |-> region]
StmtBlock(stmts, region) == [kind |-> "Block", stmts |-> stmts, region |-> region]
StmtFunc(proto, body, region) ==
    [kind |-> "Func", proto |-> proto, stmts |-> body, region |-> region]
StmtExtern(proto, region) == [kind |-> "Extern", proto |-> proto, region |-> region]
StmtImpt(path, region) == [kind |-> "Impt", name |-> path, region |-> region]
FuncProto(name, params, ret, region) ==
    [name |-> name, params |-> params, ret |-> ret, region |-> region]
Param(name, ty) == [name |-> name, ty |-> ty]

(***************************************************************************)
(* Expressions (parser/expr.rs). Every function takes the cursor it starts *)
(* at and yields its Result with the cursor it leaves; `?` hands a result  *)
(* that is not Ok to the caller as it is.                                  *)
(***************************************************************************)
RECURSIVE expression(_), declaration(_)

\* `(` expression `)`: the inner result is kept while ')' is expected, and
\* returned (Ok or Err) only when the ')' was there.
primary_closed(expr, close) ==
    IF expr.st = "panic" THEN expr
    ELSE IF close.st # "ok" THEN close
    ELSE [expr EXCEPT !.pos = close.pos]

primary_paren(expr) ==
    primary_closed(expr, expect(expr.pos, "CloseParen", "expected ')' to close expression"))

primary(p) ==
    LET t == peek(p)
    IN CASE t.kind = "Ident" ->
              Ok(Variable(t.name, previous(eat(p)).region), eat(p))
         [] t.kind = "Literal" ->
              Ok(Lit([t |-> t.lit, v |-> t.name], previous(eat(p)).region), eat(p))
         [] t.kind = "OpenParen" -> primary_paren(expression(eat(p)))
         [] OTHER ->
              IF InRange(p) THEN Err("expected an expression", p) ELSE Panic(p)

\* The arguments of a call: expression ( ',' expression )*.
RECURSIVE call_args(_, _)
call_arg(args, e) ==
    IF e.st # "ok" THEN e
    ELSE IF matches(e.pos, {"Comma"}) THEN call_args(eat(e.pos), Append(args, e.node))
    ELSE Ok(Append(args, e.node), e.pos)

call_args(p, args) == call_arg(args, expression(p))

call_close(fn_name_token, args, close_paren) ==
    IF close_paren.st # "ok" THEN close_paren
    ELSE Ok(Call(fn_name_token.name, args.node,
                 Region_to(fn_name_token.region, close_paren.node.region)),
            close_paren.pos)

call_end(fn_name_token, args) ==
    IF args.st # "ok" THEN args
    ELSE call_close(fn_name_token, args,
                    expect(args.pos, "CloseParen", "expected ')' after argument list"))

call(p) ==
    IF peek(p).kind = "Ident" /\ ~InRange(p + 1) THEN Panic(p)
    ELSE IF peek(p).kind = "Ident" /\ look_ahead(p, 1).kind = "OpenParen"
    THEN call_end(peek(p),
                  IF check(eat(eat(p)), "CloseParen") THEN Ok(<<>>, eat(eat(p)))
                  ELSE call_args(eat(eat(p)), <<>>))
    ELSE primary(p)

unary_rhs(op_token, rhs) ==
    IF rhs.st # "ok" THEN rhs
    ELSE Ok(Unary(to_unary_op(op_token.kind), rhs.node,
                  Region_to(op_token.region, rhs.node.region)), rhs.pos)

RECURSIVE unary(_)
unary(p) ==
    IF matches(p, {"Bang", "Minus"}) THEN unary_rhs(previous(eat(p)), unary(eat(p)))
    ELSE call(p)

\* The first operand of a binary rule: `let mut lhs = self.<operand>()?;
\* let expr_start = lhs.region;` hands lhs, expr_start and the cursor to the loop.
RECURSIVE factor_loop(_, _, _)
\* One iteration of the loop of factor(): expr_end is the region of the LEFT
\* operand (expr.rs:141).
factor_rhs(lhs, expr_start, op, rhs) ==
    IF rhs.st # "ok" THEN rhs
    ELSE factor_loop(Binary(op, lhs, rhs.node, Region_to(expr_start, lhs.region)),
                     expr_start, rhs.pos)

factor_loop(lhs, expr_start, p) ==
    IF matches(p, {"Slash", "Star", "Percent"})
    THEN factor_rhs(lhs, expr_start, to_bin_op(previous(eat(p)).kind), unary(eat(p)))
    ELSE Ok(lhs, p)

factor_lhs(lhs) ==
    IF lhs.st # "ok" THEN lhs ELSE factor_loop(lhs.node, lhs.node.region, lhs.pos)

factor(p) == factor_lhs(unary(p))

RECURSIVE term_loop(_, _, _)
term_rhs(lhs, expr_start, op, rhs) ==
    IF rhs.st # "ok" THEN rhs
    ELSE term_loop(Binary(op, lhs, rhs.node, Region_to(expr_start, rhs.node.region)),
                   expr_start, rhs.pos)

term_loop(lhs, expr_start, p) ==
    IF matches(p, {"Minus", "Plus"})
    THEN term_rhs(lhs, expr_start, to_bin_op(previous(eat(p)).kind), factor(eat(p)))
    ELSE Ok(lhs, p)

term_lhs(lhs) ==
    IF lhs.st # "ok" THEN lhs ELSE term_loop(lhs.node, lhs.node.region, lhs.pos)

term(p) == term_lhs(factor(p))

RECURSIVE comparison_loop(_, _, _)
comparison_rhs(lhs, expr_start, op, rhs) ==
    IF rhs.st # "ok" THEN rhs
    ELSE comparison_loop(Binary(op, lhs, rhs.node, Region_to(expr_start, rhs.node.region)),
                         expr_start, rhs.pos)

comparison_loop(lhs, expr_start, p) ==
    IF matches(p, {"Gt", "Ge", "Lt", "Le"})
    THEN comparison_rhs(lhs, expr_start, to_bin_op(previous(eat(p)).kind), term(eat(p)))
    ELSE Ok(lhs, p)

comparison_lhs(lhs) ==
    IF lhs.st # "ok" THEN lhs ELSE comparison_loop(lhs.node, lhs.node.region, lhs.pos)

comparison(p) == comparison_lhs(term(p))

RECURSIVE equality_loop(_, _, _)
equality_rhs(lhs, expr_start, op, rhs) ==
    IF rhs.st # "ok" THEN rhs
    ELSE equality_loop(Binary(op, lhs, rhs.node, Region_to(expr_start, rhs.node.region)),
                       expr_start, rhs.pos)

equality_loop(lhs, expr_start, p) ==
    IF matches(p, {"BangEqual", "DoubleEqual"})
    THEN equality_rhs(lhs, expr_start, to_bin_op(previous(eat(p)).kind),
                      comparison(eat(p)))
    ELSE Ok(lhs, p)

equality_lhs(lhs) ==
    IF lhs.st # "ok" THEN lhs ELSE equality_loop(lhs.node, lhs.node.region, lhs.pos)

equality(p) == equality_lhs(comparison(p))

RECURSIVE and_loop(_, _, _)
and_rhs(lhs, expr_start, rhs) ==
    IF rhs.st # "ok" THEN rhs
    ELSE and_loop(Binary("And", lhs, rhs.node, Region_to(expr_start, rhs.node.region)),
                  expr_start, rhs.pos)

and_loop(lhs, expr_start, p) ==
    IF matches(p, {"DoubleAmpersand"}) THEN and_rhs(lhs, expr_start, equality(eat(p)))
    ELSE Ok(lhs, p)

and_lhs(lhs) ==
    IF lhs.st # "ok" THEN lhs ELSE and_loop(lhs.node, lhs.node.region, lhs.pos)

and(p) == and_lhs(equality(p))

RECURSIVE or_loop(_, _, _)
or_rhs(lhs, expr_start, rhs) ==
    IF rhs.st # "ok" THEN rhs
    ELSE or_loop(Binary("Or", lhs, rhs.node, Region_to(expr_start, rhs.node.region)),
                 expr_start, rhs.pos)

or_loop(lhs, expr_start, p) ==
    IF matches(p, {"DoubleBar"}) THEN or_rhs(lhs, expr_start, and(eat(p)))
    ELSE Ok(lhs, p)

or_lhs(lhs) ==
    IF lhs.st # "ok" THEN lhs ELSE or_loop(lhs.node, lhs.node.region, lhs.pos)

or(p) == or_lhs(and(p))

\* Parser::block (parser/stmt.rs): the statements up to the closing '}'.
RECURSIVE block_loop(_, _)
block_stmt(stmts, d) ==
    IF d.st # "ok" THEN d ELSE block_loop(d.pos, Append(stmts, d.node))

block_close(stmts, close) ==
    IF close.st # "ok" THEN close ELSE Ok(stmts, close.pos)

block_loop(p, stmts) ==
    IF ~check(p, "CloseBrace") /\ ~is_eof(p) THEN block_stmt(stmts, declaration(p))
    ELSE block_close(stmts, expect(p, "CloseBrace", "expected '}' to close block"))

block(p) ==
    IF previous(p).kind # "OpenBrace" THEN Panic(p) ELSE block_loop(p, <<>>)

\* The block that follows an expected '{'.
block_after(open) == IF open.st # "ok" THEN open ELSE block(open.pos)

\* Parser::conditional, after `if`: the condition, '{', the then-branch, and
\* the else-branch when `else` follows.
conditional_else(if_kw, condition, then_branch, else_block) ==
    IF else_block.st # "ok" THEN else_block
    ELSE Ok(Cond(condition.node, then_branch.node, Some(else_block.node),
                 Region_to(if_kw.region, previous(else_block.pos).region)),
            else_block.pos)

conditional_then(if_kw, condition, then_branch) ==
    IF then_branch.st # "ok" THEN then_branch
    ELSE IF matches(then_branch.pos, {"Else"})
    THEN conditional_else(if_kw, condition, then_branch,
             block_after(expect(eat(then_branch.pos), "OpenBrace",
                                "expected '{' after else condition")))
    ELSE Ok(Cond(condition.node, then_branch.node, None,
                 Region_to(if_kw.region, previous(then_branch.pos).region)),
            then_branch.pos)

conditional_condition(if_kw, condition) ==
    IF condition.st # "ok" THEN condition
    ELSE conditional_then(if_kw, condition,
             block_after(expect(condition.pos, "OpenBrace",
                                "expected '{' after if condition")))

conditional(p) ==
    IF matches(p, {"If"}) THEN conditional_condition(previous(eat(p)), or(eat(p)))
    ELSE or(p)

InvalidTargetAccepted(lhs, value, p) ==
    Ok(Assign(IF lhs.kind = "Variable" THEN lhs.name ELSE "", value,
              Region_to(lhs.region, value.region)), p)
\* The end of assigment(), once both sides are parsed (expr.rs:25-31); the
\* message of the code goes on with the text of the value.
assign_target(lhs, value, p) ==
    IF lhs.kind # "Variable" THEN Err("invalid assignment target", p)
    ELSE Ok(Assign(lhs.name, value, Region_to(lhs.region, value.region)), p)

assigment_value(lhs, value) ==
    IF value.st # "ok" THEN value ELSE assign_target(lhs, value.node, value.pos)

AssigmentNoChainLhs(expr) ==
    IF expr.st # "ok" THEN expr
    ELSE IF matches(expr.pos, {"Equal"})
    THEN assigment_value(expr.node, conditional(eat(expr.pos)))
    ELSE expr
AssigmentNoChain(p) == AssigmentNoChainLhs(conditional(p))
RECURSIVE assigment(_)
assigment_lhs(expr) ==
    IF expr.st # "ok" THEN expr
    ELSE IF matches(expr.pos, {"Equal"})
    THEN assigment_value(expr.node, assigment(eat(expr.pos)))
    ELSE expr

assigment(p) == assigment_lhs(conditional(p))

expression(p) == assigment(p)

(***************************************************************************)
(* Types (parser/ty.rs) and statements (parser/stmt.rs).                   *)
(***************************************************************************)
IntTypes ==
    {<<"uint8", 8, FALSE>>, <<"uint16", 16, FALSE>>, <<"uint32", 32, FALSE>>,
     <<"uint64", 64, FALSE>>, <<"int8", 8, TRUE>>, <<"int16", 16, TRUE>>,
     <<"int32", 32, TRUE>>, <<"int64", 64, TRUE>>}

type_of_name(type_name) ==
    IF type_name = "bool" THEN [ty |-> "Bool"]
    ELSE IF \E t \in IntTypes : t[1] = type_name
    THEN LET t == CHOOSE t \in IntTypes : t[1] = type_name
         IN [ty |-> "Int", signed |-> t[3], size |-> t[2]]
    ELSE [ty |-> "Name", name |-> type_name]

type_annotation_name(type_name) ==
    IF type_name.st # "ok" THEN type_name
    ELSE Ok(type_of_name(type_name.node.name), type_name.pos)

type_annotation(p) == type_annotation_name(expect_ident(p, "expected a type name"))

\* The type annotation that follows an expected token.
type_annotation_after(tok) == IF tok.st # "ok" THEN tok ELSE type_annotation(tok.pos)

\* The loop of proto() over `name ':' type`, separated by ','.
RECURSIVE proto_params(_, _)
proto_param_ty(params, name, ty) ==
    IF ty.st # "ok" THEN ty
    ELSE IF matches(ty.pos, {"Comma"})
    THEN proto_params(eat(ty.pos), Append(params, Param(name.node.name, ty.node)))
    ELSE Ok(Append(params, Param(name.node.name, ty.node)), ty.pos)

proto_param_name(params, name) ==
    IF name.st # "ok" THEN name
    ELSE proto_param_ty(params, name,
             type_annotation_after(
                 expect(name.pos, "Colon",
                        "expected type annotation after parameter name")))

proto_params(p, params) ==
    proto_param_name(params, expect_ident(p, "expected parameter list"))

proto_ret(proto_start, name, params, close_paren, ret) ==
    IF ret.st # "ok" THEN ret
    ELSE Ok(FuncProto(name.node.name, params.node, ret.node,
                      Region_to(proto_start.region, close_paren.node.region)),
            ret.pos)

proto_close(proto_start, name, params, close_paren) ==
    IF close_paren.st # "ok" THEN close_paren
    ELSE proto_ret(proto_start, name, params, close_paren,
                   IF matches(close_paren.pos, {"Colon"})
                   THEN type_annotation(eat(close_paren.pos))
                   ELSE Ok([ty |-> "Void"], close_paren.pos))

proto_params_end(proto_start, name, params) ==
    IF params.st # "ok" THEN params
    ELSE proto_close(proto_start, name, params,
                     expect(params.pos, "CloseParen", "expected ')' after parameter list"))

proto_open(proto_start, name, open) ==
    IF open.st # "ok" THEN open
    ELSE proto_params_end(proto_start, name,
                          IF check(open.pos, "CloseParen") THEN Ok(<<>>, open.pos)
                          ELSE proto_params(open.pos, <<>>))

proto_name(proto_start, name) ==
    IF name.st # "ok" THEN name
    ELSE proto_open(proto_start, name,
                    expect(name.pos, "OpenParen", "expected '(' after function name"))

proto(p) == proto_name(peek(p), expect_ident(p, "expected function name"))

\* The prototype that follows an expected token.
proto_after(tok) == IF tok.st # "ok" THEN tok ELSE proto(tok.pos)

extern_decl_semicolon(extern_kw, pr, semicolon) ==
    IF semicolon.st # "ok" THEN semicolon
    ELSE Ok(StmtExtern(pr.node, Region_to(extern_kw.region, semicolon.node.region)),
            semicolon.pos)

extern_decl_proto(extern_kw, pr) ==
    IF pr.st # "ok" THEN pr
    ELSE extern_decl_semicolon(extern_kw, pr,
             expect(pr.pos, "Semicolon", "expected ';' after function prototype"))

extern_decl(p) ==
    extern_decl_proto(peek(p), proto_after(expect(eat(p), "Func", "expected 'func'")))

func_decl_body(func_kw, pr, body) ==
    IF body.st # "ok" THEN body
    ELSE Ok(StmtFunc(pr.node, body.node,
                     Region_to(func_kw.region, previous(body.pos).region)),
            body.pos)

func_decl_proto(func_kw, pr) ==
    IF pr.st # "ok" THEN pr
    ELSE func_decl_body(func_kw, pr,
             block_after(expect(pr.pos, "OpenBrace",
                                "expected '{' before function body")))

func_decl(p) == func_decl_proto(peek(p), proto(eat(p)))

ret_stmt_semicolon(ret_kw, value, semicolon) ==
    IF semicolon.st # "ok" THEN semicolon
    ELSE Ok(StmtRet(value.node, Region_to(ret_kw.region, semicolon.node.region)),
            semicolon.pos)

ret_stmt_value(ret_kw, value) ==
    IF value.st # "ok" THEN value
    ELSE ret_stmt_semicolon(ret_kw, value,
             expect(value.pos, "Semicolon", "expected ';' at end of return statement"))

ret_stmt(p) == ret_stmt_value(peek(p), expression(eat(p)))

\* Whether expr_stmt() goes on without expecting ';' (stmt.rs:145).
NoSemicolonNeeded(expr) == TRUE
needs_no_semicolon(expr) == is_cond(expr)

expr_stmt_semicolon(expr_start, expr, semicolon) ==
    IF semicolon.st # "ok" THEN semicolon
    ELSE IF ~InRange(semicolon.pos - 1) THEN Panic(semicolon.pos)
    ELSE Ok(StmtExpr(expr.node,
                     Region_to(expr_start.region, previous(semicolon.pos).region)),
            semicolon.pos)

expr_stmt_expr(expr_start, expr) ==
    IF expr.st # "ok" THEN expr
    ELSE expr_stmt_semicolon(expr_start, expr,
             IF needs_no_semicolon(expr.node) THEN Ok(NoNode, expr.pos)
             ELSE expect(expr.pos, "Semicolon", "expected semicolon after expression"))

expr_stmt(p) == expr_stmt_expr(peek(p), expression(p))

\* The initializer that follows the expected '='.
var_decl_init_after(equal) == IF equal.st # "ok" THEN equal ELSE expression(equal.pos)

var_decl_semicolon(var_kw, name, init, semicolon) ==
    IF semicolon.st # "ok" THEN semicolon
    ELSE Ok(StmtVar(name.node.name, init.node,
                    Region_to(var_kw.region, semicolon.node.region)),
            semicolon.pos)

var_decl_init(var_kw, name, init) ==
    IF init.st # "ok" THEN init
    ELSE var_decl_semicolon(var_kw, name, init,
             expect(init.pos, "Semicolon",
                    "expected ';' at end of variable declaration"))

var_decl_name(var_kw, name) ==
    IF name.st # "ok" THEN name
    ELSE var_decl_init(var_kw, name,
             var_decl_init_after(expect(name.pos, "Equal",
                                        "expected '=' in variable declaration")))

var_decl(p) == var_decl_name(peek(p), expect_ident(eat(p), "expected variable name"))

is_str_lit(t) == t.kind = "Literal" /\ t.lit = "Str"

impt(p) ==
    LET impt_kw == peek(p)
        path_lit == peek(eat(p))
    IN IF ~InRange(eat(p)) THEN Panic(eat(p))
       ELSE IF is_str_lit(path_lit)
       THEN Ok(StmtImpt(path_lit.name, Region_to(impt_kw.region, path_lit.region)),
               eat(eat(p)))
       ELSE Err("expected path after 'impt' statement", eat(p))

statement_block(open_brace, stmts) ==
    IF stmts.st # "ok" THEN stmts
    ELSE Ok(StmtBlock(stmts.node,
                      Region_to(open_brace.region, previous(stmts.pos).region)),
            stmts.pos)

statement(p) ==
    CASE peek(p).kind = "Ret" -> ret_stmt(p)
      [] peek(p).kind = "OpenBrace" -> statement_block(peek(p), block(eat(p)))
      [] peek(p).kind = "Impt" -> impt(p)
      [] OTHER -> expr_stmt(p)

\* Parser::declaration: the declaration at the cursor, and sync() after an Err.
SyncSkipped(decl) == decl
synced(decl) ==
    IF decl.st = "err"
    THEN LET s == sync(decl.pos)
         IN IF s = 0 THEN Panic(decl.pos) ELSE [decl EXCEPT !.pos = s]
    ELSE decl

\* `let decl = match self.peek().kind { ... }` (stmt.rs:15-21).
declaration_match(p) ==
    CASE peek(p).kind = "Extern" -> extern_decl(p)
      [] peek(p).kind = "Func" -> func_decl(p)
      [] peek(p).kind = "Var" -> var_decl(p)
      [] peek(p).kind = "Impt" -> impt(p)
      [] OTHER -> statement(p)

declaration(p) == synced(declaration_match(p))

(***************************************************************************)
(* The inputs of the parser: token sequences as the lexer lays them out,   *)
(* one blank between two tokens, the last token Eof.                       *)
(***************************************************************************)
Lx(kind) == [kind |-> kind, name |-> "", lit |-> ""]
Id(name) == [kind |-> "Ident", name |-> name, lit |-> ""]
LitInt(v) == [kind |-> "Literal", name |-> v, lit |-> "Int"]
LitStr(v) == [kind |-> "Literal", name |-> v, lit |-> "Str"]

\* The number of characters of a token's text.
Width(lx) ==
    CASE lx.kind = "Ident" ->
            (CASE lx.name = "int32" -> 5 [] lx.name = "bool" -> 4 [] OTHER -> 1)
      [] lx.kind = "Literal" -> (IF lx.lit = "Str" THEN 3 ELSE 1)
      [] lx.kind = "Extern" -> 6
      [] lx.kind = "Impt" -> 5
      [] lx.kind \in {"Func", "Else"} -> 4
      [] lx.kind \in {"Var", "Ret"} -> 3
      [] lx.kind \in {"If", "Ge", "Le", "DoubleEqual", "BangEqual",
                      "DoubleAmpersand", "DoubleBar"} -> 2
      [] lx.kind = "Eof" -> 0
      [] OTHER -> 1

RECURSIVE Layout(_, _)
Layout(lexemes, start) ==
    IF lexemes = <<>> THEN <<>>
    ELSE LET lx == Head(lexemes)
         IN <<Token(lx.kind, lx.name, lx.lit, Region_new(start, start + Width(lx)))>>
               \o Layout(Tail(lexemes), start + Width(lx) + 1)

\* Lexer::lex ends every token sequence with Eof.
Lexed(lexemes) == Layout(lexemes \o <<Lx("Eof")>>, 0)

TokenAlphabet ==
    {Id("a"), LitInt("1"), Lx("Equal"), Lx("Semicolon"), Lx("If"), Lx("OpenBrace"),
     Lx("CloseBrace"), Lx("OpenParen"), Lx("CloseParen"), Lx("Var")}

BinOpKinds ==
    {"Star", "Slash", "Percent", "Plus", "Minus", "Ge", "Gt", "Lt", "Le",
     "DoubleEqual", "BangEqual", "DoubleAmpersand", "DoubleBar"}

\* The operands of the binary chains: a variable, a literal, a call.
Operands == {<<Id("a")>>, <<LitInt("1")>>, <<Id("f"), Lx("OpenParen"), Lx("CloseParen")>>}

\* operand (op operand)^n
RECURSIVE BinaryChains(_)
BinaryChains(n) ==
    IF n = 0 THEN Operands
    ELSE {c \o <<Lx(op)>> \o o : c \in BinaryChains(n - 1), op \in BinOpKinds, o \in Operands}

BinaryInputs(n) == {c \o <<Lx("Semicolon")>> : c \in BinaryChains(n)}

\* x1 = x2 = ... = xn = e ;
RECURSIVE AssignChains(_)
AssignChains(n) ==
    IF n = 0 THEN {<<Id("c"), Lx("Semicolon")>>, <<LitInt("1"), Lx("Semicolon")>>}
    ELSE {<<Id(x), Lx("Equal")>> \o c : x \in {"a", "b"}, c \in AssignChains(n - 1)}

AssignInputs == UNION {AssignChains(n) : n \in 1..MaxChain}

\* Expressions of every kind, as statements and as assignment targets.
CondNoElse == <<Lx("If"), Id("a"), Lx("OpenBrace"), Lx("CloseBrace")>>
CondElse == CondNoElse \o <<Lx("Else"), Lx("OpenBrace"), Id("b"), Lx("Semicolon"),
                            Lx("CloseBrace")>>
ExprForms ==
    {<<Id("a")>>, <<LitInt("1")>>, <<Id("a"), Lx("Plus"), Id("b")>>,
     <<Id("a"), Lx("Star"), LitInt("1")>>, <<Lx("Minus"), Id("a")>>,
     <<Lx("Bang"), Id("a")>>, <<Id("f"), Lx("OpenParen"), Lx("CloseParen")>>,
     <<Id("f"), Lx("OpenParen"), Id("a"), Lx("Comma"), LitInt("1"), Lx("CloseParen")>>,
     <<Id("a"), Lx("Equal"), Id("b")>>,
     <<Lx("OpenParen"), Id("a"), Lx("CloseParen")>>,
     <<Lx("OpenParen"), Id("a"), Lx("Equal"), Id("b"), Lx("CloseParen")>>,
     <<Lx("OpenParen")>> \o CondNoElse \o <<Lx("CloseParen")>>,
     CondNoElse, CondElse}

Enders == {<<>>, <<Lx("Semicolon")>>, <<Id("c"), Lx("Semicolon")>>, <<Id("c")>>,
           <<Lx("CloseBrace")>>}

ExprStmtInputs == {e \o t : e \in ExprForms, t \in Enders}

TargetInputs ==
    {l \o <<Lx("Equal")>> \o r \o <<Lx("Semicolon")>> :
        l \in ExprForms, r \in {<<Id("c")>>, <<LitInt("1"), Lx("Equal"), Id("c")>>,
                                <<Lx("Plus")>>}}

\* Whole modules: every kind of declaration, well formed and not.
Modules ==
    {<<Lx("Func"), Id("f"), Lx("OpenParen"), Id("a"), Lx("Colon"), Id("int32"),
       Lx("Comma"), Id("b"), Lx("Colon"), Id("bool"), Lx("CloseParen"), Lx("Colon"),
       Id("T"), Lx("OpenBrace"), Lx("Var"), Id("s"), Lx("Equal"), Id("a"), Lx("Plus"),
       Id("b"), Lx("Semicolon"), Lx("Ret"), Id("s"), Lx("Semicolon"), Lx("CloseBrace")>>,
     <<Lx("Func"), Id("f"), Lx("OpenParen"), Lx("CloseParen"), Lx("OpenBrace"),
       Lx("CloseBrace"), Lx("Extern"), Lx("Func"), Id("g"), Lx("OpenParen"),
       Lx("CloseParen"), Lx("Semicolon"), Lx("Impt"), LitStr("m"), Id("g"),
       Lx("OpenParen"), Lx("CloseParen"), Lx("Semicolon")>>,
     <<Lx("Extern"), Id("g"), Lx("Semicolon"), Lx("Impt"), LitInt("1"),
       Lx("Semicolon"), Lx("Ret"), Lx("Semicolon"), Lx("Func"), Id("f"),
       Lx("OpenParen"), Id("a"), Lx("CloseParen"), Lx("Var"), Id("x"), Lx("Equal"),
       LitInt("1"), Lx("Semicolon")>>,
     <<Lx("OpenBrace"), Id("a"), Lx("Plus"), Lx("Semicolon"), Id("b"), Lx("Semicolon"),
       Lx("CloseBrace"), Id("c"), Lx("Semicolon")>>,
     <<Lx("Func"), Id("f"), Lx("OpenParen"), Lx("CloseParen"), Lx("OpenBrace"),
       Lx("If"), Id("a"), Lx("OpenBrace"), Lx("Ret"), Lx("Semicolon"), Lx("CloseBrace"),
       Lx("Else"), Lx("OpenBrace"), Id("b"), Lx("CloseBrace"), Lx("CloseBrace"),
       Lx("Var"), Id("x"), Lx("Equal"), LitInt("1"), Lx("Semicolon")>>}

ParserInputs ==
    SeqsUpTo(TokenAlphabet, MaxTokens) \cup AssignInputs \cup ExprStmtInputs
       \cup TargetInputs \cup Modules

OptimizerIdle ==
    /\ instructions = <<>>
    /\ opt_in = <<>>
    /\ opt_idx = 1
    /\ available_exprs = EmptyMap
    /\ new_instructions = <<>>
    /\ once = <<>>
    /\ opt_state = "idle"

\* Parser::new over a lexed source.
ParserNew(lexemes) ==
    /\ tokens = Lexed(lexemes)
    /\ current = 1
    /\ decls = <<>>
    /\ pstate = "parsing"

InitParse ==
    /\ \E lexemes \in ParserInputs : ParserNew(lexemes)
    /\ OptimizerIdle
    /\ FrontIdle

InitExpr ==
    /\ \E n \in 1..MaxOps : \E lexemes \in BinaryInputs(n) : ParserNew(lexemes)
    /\ OptimizerIdle
    /\ FrontIdle

(***************************************************************************)
(* Parser::parse (parser/mod.rs:41-49): one step is one iteration of the   *)
(* loop, a whole call of declaration().                                    *)
(***************************************************************************)
\* The condition of the loop: `while !self.is_eof()`.
ParseLoops == pstate = "parsing" /\ ~is_eof(current)

ParseDeclaration ==
    /\ ParseLoops
    /\ \E decl \in {declaration(current)} :
          /\ decls' = Append(decls, [st |-> decl.st, node |-> decl.node, msg |-> decl.msg])
          /\ current' = decl.pos
          /\ pstate' = IF decl.st = "panic" THEN "panicked" ELSE "parsing"
    /\ UNCHANGED <<tokens, optVars, frontVars>>

ParseReturn ==
    /\ pstate = "parsing"
    /\ is_eof(current)
    /\ pstate' = "done"
    /\ UNCHANGED <<tokens, current, decls, optVars, frontVars>>

NextParse == ParseDeclaration \/ ParseReturn

SpecParse == InitParse /\ [][NextParse]_vars
\* parse() is one uninterrupted call: it goes on while it can.  FairDeclaration
\* is WF_vars(ParseDeclaration) written out: a step of ParseDeclaration appends
\* to decls, so ENABLED <<ParseDeclaration>>_vars is its guard ParseLoops.
FairDeclaration == ([]<>(~ParseLoops)) \/ ([]<><<ParseDeclaration>>_vars)
LiveSpecParse == SpecParse /\ WF_vars(ParseReturn) /\ FairDeclaration
SpecExpr == InitExpr /\ [][NextParse]_vars

(***************************************************************************)
(* The visitor dispatch (ast/visit.rs): the method of the visitor that a   *)
(* node is handed to.                                                      *)
(***************************************************************************)
walk_expr(e) ==
    CASE e.kind = "Lit" -> "visit_lit_expr"
      [] e.kind = "Variable" -> "visit_variable_expr"
      [] e.kind = "Unary" -> "visit_unary_expr"
      [] e.kind = "Binary" -> "visit_binary_expr"
      [] e.kind = "Call" -> "visit_call_expr"
      [] e.kind = "Cond" -> "visit_cond_expr"
      [] e.kind = "Assign" -> "visit_assign_expr"

walk_stmt(s) ==
    CASE s.kind = "Expr" -> "visit_expr_stmt"
      [] s.kind = "Ret" -> "visit_expr_stmt"
      [] s.kind = "Var" -> "visit_var_stmt"
      [] s.kind = "Block" -> "visit_block"
      [] s.kind = "Func" -> "visit_func"
      [] s.kind = "Extern" -> "visit_extern"
      [] s.kind = "Impt" -> "visit_impt"

(***************************************************************************)
(* The scope checker (scopechk.rs).  A ScopeChecker value is its stack of  *)
(* scopes together with the lines it has printed; scopes[1] is the scope   *)
(* that new() creates and the last element is the scope pushed last.       *)
(***************************************************************************)
ScopeChecker(stack, printed) == [scopes |-> stack, diagnostics |-> printed]

\* The three lines the checker prints, without the formatting.
AlreadyExists(symbol) == [msg |-> "already exists in this scope", name |-> symbol]
NotDefined(symbol) == [msg |-> "is not defined", name |-> symbol]
OwnInitializer ==
    [msg |-> "cannot reference variable in its own initializer", name |-> ""]

eprintln(self, line) == [self EXCEPT !.diagnostics = Append(@, line)]

ScopeChecker_new == ScopeChecker(<<EmptyMap>>, <<>>)

start_scope(self) == [self EXCEPT !.scopes = Append(@, EmptyMap)]

\* Vec::pop leaves an empty Vec as it is.
EndScopeKept(self) == self
end_scope(self) ==
    [self EXCEPT !.scopes = IF @ = <<>> THEN @ ELSE SubSeq(@, 1, Len(@) - 1)]

\* `self.scopes.first()`, `self.scopes.first_mut()`.
current_scope(self) == Head(self.scopes)
current_scope_mut(self, scope) == [self EXCEPT !.scopes[1] = scope]

DeclareSilently(self, symbol) ==
    current_scope_mut(self, insert(current_scope(self), symbol, FALSE))
declare(self, symbol) ==
    IF symbol \in DOMAIN current_scope(self)
    THEN eprintln(self, AlreadyExists(symbol))
    ELSE current_scope_mut(self, insert(current_scope(self), symbol, FALSE))

define(self, symbol) ==
    current_scope_mut(self, insert(current_scope(self), symbol, TRUE))

check_local(self, sym) ==
    IF \E i \in 1..Len(self.scopes) : sym \in DOMAIN self.scopes[i] THEN self
    ELSE eprintln(self, NotDefined(sym))

\* check_function up to the call of check(body): the new scope and the loop
\* over the parameters.
RECURSIVE check_function_params(_, _)
check_function_params(self, params) ==
    IF params = <<>> THEN self
    ELSE check_function_params(define(declare(self, Head(params).name),
                                      Head(params).name),
                               Tail(params))

check_function(self, proto_) == check_function_params(start_scope(self), proto_.params)

\* visit_variable_expr up to the call of check_local.
initialized(self, var) ==
    IF var \in DOMAIN current_scope(self) THEN current_scope(self)[var] ELSE TRUE

visit_variable_expr(self, var) ==
    check_local(IF ~initialized(self, var) THEN eprintln(self, OwnInitializer)
                ELSE self,
                var)

(***************************************************************************)
(* The calls of the checker that have not returned, innermost first.  A    *)
(* frame is the rest of a call: the loop of check() over a list with the   *)
(* number of statements it has taken, an expression about to be walked, or *)
(* what a handler does after the call it is waiting for.                   *)
(***************************************************************************)
FCheck(list, taken) == [pc |-> "check", stmts |-> list, i |-> taken]
FExpr(e) == [pc |-> "walk_expr", expr |-> e]
FDefine(symbol) == [pc |-> "define", name |-> symbol]
FEndScope == [pc |-> "end_scope"]
FCheckLocal(symbol) == [pc |-> "check_local", name |-> symbol]

Checking == sc_state = "checking"
Top == Head(frames)
\* The loop of check() has a next statement, which walk_stmt hands on.
CheckLoops == Checking /\ Top.pc = "check" /\ Top.i < Len(Top.stmts)
next_stmt == Top.stmts[Top.i + 1]
StmtVisit(method) == CheckLoops /\ walk_stmt(next_stmt) = method
ExprVisit(method) ==
    Checking /\ Top.pc = "walk_expr" /\ walk_expr(Top.expr) = method
\* A statement handler runs `callees` before the loop goes on.
StmtCalls(callees) ==
    frames' = callees \o <<[Top EXCEPT !.i = @ + 1]>> \o Tail(frames)
\* An expression handler runs `callees` before it returns to its caller.
ExprCalls(callees) == frames' = callees \o Tail(frames)
Becomes(self) == scopes' = self.scopes /\ diagnostics' = self.diagnostics
Self == ScopeChecker(scopes, diagnostics)

\* visit_expr_stmt: walk_expr(self, &expr).
VisitExprStmt ==
    /\ StmtVisit("visit_expr_stmt")
    /\ StmtCalls(<<FExpr(next_stmt.expr)>>)
    /\ UNCHANGED <<scopes, diagnostics, sc_state, optVars, parseVars, genVars, lexVars>>

\* visit_var_stmt: declare, then the initializer; define waits.
VisitVarStmt ==
    /\ StmtVisit("visit_var_stmt")
    /\ Becomes(declare(Self, next_stmt.name))
    /\ StmtCalls(<<FExpr(next_stmt.expr), FDefine(next_stmt.name)>>)
    /\ UNCHANGED <<sc_state, optVars, parseVars, genVars, lexVars>>

\* visit_var_stmt after check_expr(&init): self.define(name).
VarStmtDefine ==
    /\ Checking /\ Top.pc = "define"
    /\ Becomes(define(Self, Top.name))
    /\ frames' = Tail(frames)
    /\ UNCHANGED <<sc_state, optVars, parseVars, genVars, lexVars>>

\* visit_block: start_scope, then check(stmts); end_scope waits.
VisitBlock ==
    /\ StmtVisit("visit_block")
    /\ Becomes(start_scope(Self))
    /\ StmtCalls(<<FCheck(next_stmt.stmts, 0), FEndScope>>)
    /\ UNCHANGED <<sc_state, optVars, parseVars, genVars, lexVars>>

\* visit_func: declare and define the name, then check_function up to
\* check(body); end_scope waits.
VisitFunc ==
    /\ StmtVisit("visit_func")
    /\ Becomes(check_function(define(declare(Self, next_stmt.proto.name),
                                     next_stmt.proto.name),
                              next_stmt.proto))
    /\ StmtCalls(<<FCheck(next_stmt.stmts, 0), FEndScope>>)
    /\ UNCHANGED <<sc_state, optVars, parseVars, genVars, lexVars>>

\* The end of visit_block and of check_function: self.end_scope().
EndScope ==
    /\ Checking /\ Top.pc = "end_scope"
    /\ Becomes(end_scope(Self))
    /\ frames' = Tail(frames)
    /\ UNCHANGED <<sc_state, optVars, parseVars, genVars, lexVars>>

VisitExtern ==
    /\ StmtVisit("visit_extern")
    /\ Becomes(define(declare(Self, next_stmt.proto.name), next_stmt.proto.name))
    /\ StmtCalls(<<>>)
    /\ UNCHANGED <<sc_state, optVars, parseVars, genVars, lexVars>>

\* visit_impt is todo!(): the checker panics.
VisitImpt ==
    /\ StmtVisit("visit_impt")
    /\ sc_state' = "panicked"
    /\ UNCHANGED <<scopes, diagnostics, frames, optVars, parseVars, genVars, lexVars>>

\* The loop of check() is over: check() returns to its caller; the call of
\* check(module) returns to the caller of the checker.
CheckReturn ==
    /\ Checking /\ Top.pc = "check" /\ Top.i = Len(Top.stmts)
    /\ frames' = Tail(frames)
    /\ sc_state' = IF Tail(frames) = <<>> THEN "done" ELSE "checking"
    /\ UNCHANGED <<scopes, diagnostics, optVars, parseVars, genVars, lexVars>>

VisitLitExpr ==
    /\ ExprVisit("visit_lit_expr")
    /\ ExprCalls(<<>>)
    /\ UNCHANGED <<scopes, diagnostics, sc_state, optVars, parseVars, genVars, lexVars>>

VisitVariableExpr ==
    /\ ExprVisit("visit_variable_expr")
    /\ Becomes(visit_variable_expr(Self, Top.expr.name))
    /\ ExprCalls(<<>>)
    /\ UNCHANGED <<sc_state, optVars, parseVars, genVars, lexVars>>

VisitUnaryExpr ==
    /\ ExprVisit("visit_unary_expr")
    /\ ExprCalls(<<FExpr(Top.expr.rhs)>>)
    /\ UNCHANGED <<scopes, diagnostics, sc_state, optVars, parseVars, genVars, lexVars>>

VisitBinaryExpr ==
    /\ ExprVisit("visit_binary_expr")
    /\ ExprCalls(<<FExpr(Top.expr.lhs), FExpr(Top.expr.rhs)>>)
    /\ UNCHANGED <<scopes, diagnostics, sc_state, optVars, parseVars, genVars, lexVars>>

\* visit_call_expr: check_local(func_name), then every argument.
VisitCallExpr ==
    /\ ExprVisit("visit_call_expr")
    /\ Becomes(check_local(Self, Top.expr.name))
    /\ ExprCalls([k \in 1..Len(Top.expr.args) |-> FExpr(Top.expr.args[k])])
    /\ UNCHANGED <<sc_state, optVars, parseVars, genVars, lexVars>>

\* visit_cond_expr: the condition, check(then_block) and, when there is an
\* else, check(else_block); no scope is started or ended.
VisitCondExpr ==
    /\ ExprVisit("visit_cond_expr")
    /\ ExprCalls(<<FExpr(Top.expr.condition), FCheck(Top.expr.then_branch, 0)>>
                   \o (IF Top.expr.else_branch.some
                       THEN <<FCheck(Top.expr.else_branch.val, 0)>> ELSE <<>>))
    /\ UNCHANGED <<scopes, diagnostics, sc_state, optVars, parseVars, genVars, lexVars>>

\* visit_assign_expr: the value first; check_local(var_name) waits.
VisitAssignExpr ==
    /\ ExprVisit("visit_assign_expr")
    /\ ExprCalls(<<FExpr(Top.expr.value), FCheckLocal(Top.expr.name)>>)
    /\ UNCHANGED <<scopes, diagnostics, sc_state, optVars, parseVars, genVars, lexVars>>

AssignCheckLocal ==
    /\ Checking /\ Top.pc = "check_local"
    /\ Becomes(check_local(Self, Top.name))
    /\ frames' = Tail(frames)
    /\ UNCHANGED <<sc_state, optVars, parseVars, genVars, lexVars>>

(***************************************************************************)
(* The modules handed to the scope checker.  The checker reads no region.  *)
(***************************************************************************)
MaxStmts == 2

NoRegion == Region_new(0, 0)
Var_(symbol) == Variable(symbol, NoRegion)
One == Lit([t |-> "Int", v |-> "1"], NoRegion)
VarStmt_(symbol, init) == StmtVar(symbol, init, NoRegion)
ExprStmt_(e) == StmtExpr(e, NoRegion)
Proto_(symbol, names) ==
    FuncProto(symbol, [k \in 1..Len(names) |-> Param(names[k], type_of_name("int32"))],
              [ty |-> "Void"], NoRegion)

ScopeExprs ==
    {Var_("x"), Var_("y"), Var_("a"),
     Unary("Neg", Var_("x"), NoRegion),
     Binary("Add", Var_("x"), Var_("y"), NoRegion),
     Call("f", <<Var_("a")>>, NoRegion),
     Call("g", <<>>, NoRegion),
     Assign("x", One, NoRegion),
     Cond(Var_("x"), <<VarStmt_("x", One)>>, None, NoRegion),
     Cond(One, <<>>, Some(<<VarStmt_("y", One)>>), NoRegion)}

ScopeBodies ==
    {<<VarStmt_("x", One)>>,
     <<VarStmt_("x", Var_("x"))>>,
     <<VarStmt_("x", One), VarStmt_("x", One)>>,
     <<VarStmt_("x", One), ExprStmt_(Var_("x"))>>,
     <<VarStmt_("x", One), VarStmt_("x", One), ExprStmt_(Var_("x"))>>,
     <<StmtBlock(<<VarStmt_("x", Var_("x"))>>, NoRegion)>>}

ScopeFuncs ==
    {StmtFunc(Proto_("f", <<"a">>), <<ExprStmt_(Var_("a"))>>, NoRegion),
     StmtFunc(Proto_("g", <<"a">>), <<>>, NoRegion),
     StmtFunc(Proto_("f", <<>>), <<VarStmt_("x", One)>>, NoRegion),
     StmtFunc(Proto_("g", <<"a", "x">>), <<VarStmt_("y", Var_("x"))>>, NoRegion)}

ScopeStmts ==
    {ExprStmt_(e) : e \in ScopeExprs}
      \cup {StmtRet(Var_("x"), NoRegion)}
      \cup {VarStmt_("x", One), VarStmt_("x", Var_("x")), VarStmt_("y", Var_("x")),
            VarStmt_("x", Binary("Add", One, Var_("x"), NoRegion))}
      \cup {StmtBlock(b, NoRegion) : b \in ScopeBodies}
      \cup ScopeFuncs
      \cup {StmtExtern(Proto_("f", <<>>), NoRegion), StmtImpt("m", NoRegion)}

\* ScopeChecker::new() and the call of check(module).
InitScope ==
    /\ \E module \in SeqsUpTo(ScopeStmts, MaxStmts) : frames = <<FCheck(module, 0)>>
    /\ scopes = ScopeChecker_new.scopes
    /\ diagnostics = ScopeChecker_new.diagnostics
    /\ sc_state = "checking"
    /\ OptimizerIdle
    /\ ParserIdle
    /\ GenIdle
    /\ LexIdle

NextScope ==
    \/ VisitExprStmt \/ VisitVarStmt \/ VarStmtDefine \/ VisitBlock \/ VisitFunc
    \/ EndScope \/ VisitExtern \/ VisitImpt \/ CheckReturn
    \/ VisitLitExpr \/ VisitVariableExpr \/ VisitUnaryExpr \/ VisitBinaryExpr
    \/ VisitCallExpr \/ VisitCondExpr \/ VisitAssignExpr \/ AssignCheckLocal

SpecScope == InitScope /\ [][NextScope]_vars

(***************************************************************************)
(* The code generator (codegen/mod.rs).  A CodeGenerator value is its list *)
(* of instructions and its two counters.                                   *)
(***************************************************************************)
CodeGenerator(list, vars_made, labels_made) ==
    [instructions |-> list, tmp_var |-> vars_made, tmp_label |-> labels_made]

CodeGenerator_new == CodeGenerator(<<>>, 0, 0)

\* format!("_t{}", self.tmp_var) and format!("_L{}", self.tmp_label).
tmp_var_name(n) == "_t" \o ToString(n)
label_name(n) == "_L" \o ToString(n)

\* new_tmp_var, new_tmp_label: the generator after the call, and the Symbol.
new_tmp_var(self) ==
    [self |-> [self EXCEPT !.tmp_var = @ + 1], t |-> tmp_var_name(self.tmp_var)]
NewLabelReused(self) == [self |-> self, t |-> label_name(self.tmp_label)]
new_tmp_label(self) ==
    [self |-> [self EXCEPT !.tmp_label = @ + 1], t |-> label_name(self.tmp_label)]

push(self, instruction) == [self EXCEPT !.instructions = Append(@, instruction)]
emit_assign(self, symbol, init) == push(self, IAssign(symbol, init))
emit_assign_const_int(self, symbol, init) ==
    emit_assign(self, symbol, EPrimary(PConst([t |-> "Int", v |-> init])))
emit_assign_const_str(self, symbol, init) ==
    emit_assign(self, symbol, EPrimary(PConst([t |-> "Str", v |-> init])))
emit_assign_var(self, symbol, init) == emit_assign(self, symbol, EPrimary(PVar(init)))
emit_assign_call(self, symbol, func) == push(self, IAssign(symbol, ECall(func)))
emit_assign_binary(self, symbol, op, lhs, rhs) ==
    push(self, IAssign(symbol, EBinary(op, PVar(lhs), PVar(rhs))))
emit_arg(self, symbol) == push(self, IArg(PVar(symbol)))
emit_ifz(self, condition, label) == push(self, IIfz(PVar(condition), label))
emit_label(self, label) == push(self, ILabel(label))
emit_ret(self, value) ==
    push(self, IRet(IF value.some THEN PVar(value.val) ELSE NoPrimary))
emit_goto(self, label) == push(self, IGoto(label))

\* `k as i64` for the characters of the model; integers are kept as written.
char_as_i64(k) == CASE k = "a" -> "97" [] k = "7" -> "55"

\* The handlers that call no other handler: the generator after the call and
\* the Option<Symbol> returned.
gen_lit_assign(made, lit) ==
    CASE lit.t = "Int" -> emit_assign_const_int(made.self, made.t, lit.v)
      [] lit.t = "Str" -> emit_assign_const_str(made.self, made.t, lit.v)
      [] lit.t = "Char" -> emit_assign_const_int(made.self, made.t, char_as_i64(lit.v))
gen_lit(made, lit) == [self |-> gen_lit_assign(made, lit), t |-> Some(made.t)]
gen_visit_lit_expr(self, lit) == gen_lit(new_tmp_var(self), lit)

gen_variable(made, var) == [self |-> emit_assign_var(made.self, made.t, var), t |-> Some(made.t)]
gen_visit_variable_expr(self, var) == gen_variable(new_tmp_var(self), var)

\* visit_binary_expr after both operands: the new temporary and the Assign.
gen_binary(made, op, t1, t2) ==
    [self |-> emit_assign_binary(made.self, made.t, op, t1, t2), t |-> Some(made.t)]
\* visit_call_expr after the arguments.
gen_call(made, func_name) ==
    [self |-> emit_assign_call(made.self, made.t, func_name), t |-> Some(made.t)]
\* visit_cond_expr after the condition: both labels, then the Ifz.
gen_cond_labels(t, else_label, end_label) ==
    [self |-> emit_ifz(end_label.self, t, else_label.t),
     else_label |-> else_label.t, end_label |-> end_label.t]
gen_cond_else_label(t, else_label) ==
    gen_cond_labels(t, else_label, new_tmp_label(else_label.self))
gen_cond_ifz(self, t) == gen_cond_else_label(t, new_tmp_label(self))
\* visit_cond_expr after the then block: the Goto when there is an else, and
\* the else label.
CondThenNoGoto(self, else_label, end_label, else_block) ==
    emit_label(self, else_label)
gen_cond_then(self, else_label, end_label, else_block) ==
    emit_label(IF else_block.some THEN emit_goto(self, end_label) ELSE self, else_label)

(***************************************************************************)
(* The calls of the generator that have not returned, innermost first, as  *)
(* for the scope checker; `returned` is the value of the call that         *)
(* returned last, which the caller on top reads.                           *)
(***************************************************************************)
GGen(module) == [pc |-> "gen", stmts |-> module, i |-> 0]
GBlock(list) == [pc |-> "visit_block", stmts |-> list, i |-> 0]
GExpr(e) == [pc |-> "walk_expr", expr |-> e]
GVarInit(symbol) == [pc |-> "visit_var_stmt", name |-> symbol]
GBinaryLhs(op, rhs) == [pc |-> "binary_lhs", bop |-> op, rhs |-> rhs]
GBinaryRhs(op, t1) == [pc |-> "binary_rhs", bop |-> op, t1 |-> t1]
GCallArg(func_name, args, k) ==
    [pc |-> "call_arg", name |-> func_name, args |-> args, k |-> k]
GCondCondition(then_block, else_block) ==
    [pc |-> "cond_condition", then_branch |-> then_block, else_branch |-> else_block]
GCondThen(else_label, end_label, else_block) ==
    [pc |-> "cond_then", else_label |-> else_label, end_label |-> end_label,
     else_branch |-> else_block]
GCondElse(end_label) == [pc |-> "cond_else", end_label |-> end_label]
GAssignValue(symbol) == [pc |-> "assign_value", name |-> symbol]

Generating == gen_state = "generating"
GTop == Head(gen_frames)
GenAt(pc) == Generating /\ GTop.pc = pc
\* A loop over statements (of gen or of visit_block) has a next statement.
GenLoops ==
    Generating /\ GTop.pc \in {"gen", "visit_block"} /\ GTop.i < Len(GTop.stmts)
gen_stmt == GTop.stmts[GTop.i + 1]
GenStmtVisit(method) == GenLoops /\ walk_stmt(gen_stmt) = method
GenExprVisit(method) == GenAt("walk_expr") /\ walk_expr(GTop.expr) = method
\* A statement handler runs `callees` before the loop goes on.
GenStmtCalls(callees) ==
    gen_frames' = callees \o <<[GTop EXCEPT !.i = @ + 1]>> \o Tail(gen_frames)
\* The call on top goes on with `callees`; with none, it returns.
GenCalls(callees) == gen_frames' = callees \o Tail(gen_frames)
GenSelf == CodeGenerator(instructions, tmp_var, tmp_label)
GenBecomes(self) ==
    /\ instructions' = self.instructions
    /\ tmp_var' = self.tmp_var
    /\ tmp_label' = self.tmp_label
\* `.unwrap()` of a None.
GenPanics ==
    /\ gen_state' = "panicked"
    /\ UNCHANGED <<instructions, tmp_var, tmp_label, gen_frames, returned>>
optRest == <<opt_in, opt_idx, available_exprs, new_instructions, once, opt_state>>
genRest == <<optRest, parseVars, scopeVars, lexVars>>

\* visit_expr_stmt, for StmtKind::Expr and StmtKind::Ret: walk_expr(self, expr).
GenExprStmt ==
    /\ GenStmtVisit("visit_expr_stmt")
    /\ GenStmtCalls(<<GExpr(gen_stmt.expr)>>)
    /\ UNCHANGED <<instructions, tmp_var, tmp_label, returned, gen_state, genRest>>

\* visit_var_stmt: the initializer first.
GenVarStmt ==
    /\ GenStmtVisit("visit_var_stmt")
    /\ GenStmtCalls(<<GExpr(gen_stmt.expr), GVarInit(gen_stmt.name)>>)
    /\ UNCHANGED <<instructions, tmp_var, tmp_label, returned, gen_state, genRest>>

\* visit_var_stmt after walk_expr(self, init): unwrap, emit_assign_var; None.
GenVarInit ==
    /\ GenAt("visit_var_stmt")
    /\ IF ~returned.some THEN GenPanics
       ELSE /\ GenBecomes(emit_assign_var(GenSelf, GTop.name, returned.val))
            /\ GenCalls(<<>>)
            /\ returned' = None
            /\ UNCHANGED gen_state
    /\ UNCHANGED genRest

\* visit_func: emit_label(proto.name), then visit_block(body).
GenFunc ==
    /\ GenStmtVisit("visit_func")
    /\ GenBecomes(emit_label(GenSelf, gen_stmt.proto.name))
    /\ GenStmtCalls(<<GBlock(gen_stmt.stmts)>>)
    /\ UNCHANGED <<returned, gen_state, genRest>>

\* walk_stmt hands a StmtKind::Block to visit_block.
GenBlock ==
    /\ GenStmtVisit("visit_block")
    /\ GenStmtCalls(<<GBlock(gen_stmt.stmts)>>)
    /\ UNCHANGED <<instructions, tmp_var, tmp_label, returned, gen_state, genRest>>

\* The loop of visit_block is over: None.
GenBlockReturn ==
    /\ GenAt("visit_block")
    /\ GTop.i = Len(GTop.stmts)
    /\ GenCalls(<<>>)
    /\ returned' = None
    /\ UNCHANGED <<instructions, tmp_var, tmp_label, gen_state, genRest>>

GenExtern ==
    /\ GenStmtVisit("visit_extern")
    /\ GenStmtCalls(<<>>)
    /\ returned' = None
    /\ UNCHANGED <<instructions, tmp_var, tmp_label, gen_state, genRest>>

GenImpt ==
    /\ GenStmtVisit("visit_impt")
    /\ GenStmtCalls(<<>>)
    /\ returned' = None
    /\ UNCHANGED <<instructions, tmp_var, tmp_label, gen_state, genRest>>

\* The loop of gen() is over: optimize_mut() hands every basic block to
\* elim_common_subexprs, which builds a new Vec and leaves its argument as it
\* is; the Vecs returned are dropped.
GenReturn ==
    /\ GenAt("gen")
    /\ GTop.i = Len(GTop.stmts)
    /\ gen_frames' = <<>>
    /\ gen_state' = "done"
    /\ UNCHANGED <<instructions, tmp_var, tmp_label, returned, genRest>>

GenLitExpr ==
    /\ GenExprVisit("visit_lit_expr")
    /\ \E done \in {gen_visit_lit_expr(GenSelf, GTop.expr.lit)} :
          GenBecomes(done.self) /\ returned' = done.t
    /\ GenCalls(<<>>)
    /\ UNCHANGED <<gen_state, genRest>>

GenVariableExpr ==
    /\ GenExprVisit("visit_variable_expr")
    /\ \E done \in {gen_visit_variable_expr(GenSelf, GTop.expr.name)} :
          GenBecomes(done.self) /\ returned' = done.t
    /\ GenCalls(<<>>)
    /\ UNCHANGED <<gen_state, genRest>>

\* visit_unary_expr is todo!().
GenUnaryExpr ==
    /\ GenExprVisit("visit_unary_expr")
    /\ GenPanics
    /\ UNCHANGED genRest

\* visit_binary_expr: the left operand first.
GenBinaryExpr ==
    /\ GenExprVisit("visit_binary_expr")
    /\ GenCalls(<<GExpr(GTop.expr.lhs), GBinaryLhs(GTop.expr.bop, GTop.expr.rhs)>>)
    /\ UNCHANGED <<instructions, tmp_var, tmp_label, returned, gen_state, genRest>>

\* `let t1 = walk_expr(self, lhs).unwrap();`, then the right operand.
GenBinaryLhs ==
    /\ GenAt("binary_lhs")
    /\ IF ~returned.some THEN GenPanics
       ELSE /\ GenCalls(<<GExpr(GTop.rhs), GBinaryRhs(GTop.bop, returned.val)>>)
            /\ UNCHANGED <<instructions, tmp_var, tmp_label, returned, gen_state>>
    /\ UNCHANGED genRest

\* `let t2 = walk_expr(self, rhs).unwrap();`, the new temporary, the Assign.
GenBinaryRhs ==
    /\ GenAt("binary_rhs")
    /\ IF ~returned.some THEN GenPanics
       ELSE /\ \E done \in {gen_binary(new_tmp_var(GenSelf), GTop.bop, GTop.t1,
                                       returned.val)} :
                  GenBecomes(done.self) /\ returned' = done.t
            /\ GenCalls(<<>>)
            /\ UNCHANGED gen_state
    /\ UNCHANGED genRest

\* visit_call_expr: the first argument, or with no argument the Assign.
GenCallExpr ==
    /\ GenExprVisit("visit_call_expr")
    /\ IF GTop.expr.args = <<>>
       THEN /\ \E done \in {gen_call(new_tmp_var(GenSelf), GTop.expr.name)} :
                  GenBecomes(done.self) /\ returned' = done.t
            /\ GenCalls(<<>>)
       ELSE /\ GenCalls(<<GExpr(GTop.expr.args[1]),
                          GCallArg(GTop.expr.name, GTop.expr.args, 1)>>)
            /\ UNCHANGED <<instructions, tmp_var, tmp_label, returned>>
    /\ UNCHANGED <<gen_state, genRest>>

\* The loop of visit_call_expr after an argument: unwrap, emit_arg; then the
\* next argument, or after the last one the new temporary and the Assign.
GenCallArg ==
    /\ GenAt("call_arg")
    /\ IF ~returned.some THEN GenPanics
       ELSE IF GTop.k < Len(GTop.args)
       THEN /\ GenBecomes(emit_arg(GenSelf, returned.val))
            /\ GenCalls(<<GExpr(GTop.args[GTop.k + 1]),
                          GCallArg(GTop.name, GTop.args, GTop.k + 1)>>)
            /\ UNCHANGED <<returned, gen_state>>
       ELSE /\ \E done \in {gen_call(new_tmp_var(emit_arg(GenSelf, returned.val)),
                                     GTop.name)} :
                  GenBecomes(done.self) /\ returned' = done.t
            /\ GenCalls(<<>>)
            /\ UNCHANGED gen_state
    /\ UNCHANGED genRest

\* visit_cond_expr: the condition first.
GenCondExpr ==
    /\ GenExprVisit("visit_cond_expr")
    /\ GenCalls(<<GExpr(GTop.expr.condition),
                  GCondCondition(GTop.expr.then_branch, GTop.expr.else_branch)>>)
    /\ UNCHANGED <<instructions, tmp_var, tmp_label, returned, gen_state, genRest>>

\* After the condition: unwrap, the two labels, the Ifz, visit_block(then).
GenCondCondition ==
    /\ GenAt("cond_condition")
    /\ IF ~returned.some THEN GenPanics
       ELSE /\ \E made \in {gen_cond_ifz(GenSelf, returned.val)} :
                  /\ GenBecomes(made.self)
                  /\ GenCalls(<<GBlock(GTop.then_branch),
                                GCondThen(made.else_label, made.end_label,
                                          GTop.else_branch)>>)
            /\ UNCHANGED <<returned, gen_state>>
    /\ UNCHANGED genRest

\* After the then block: the Goto and the else label; visit_block(else) when
\* there is an else, and None when there is none.
GenCondThen ==
    /\ GenAt("cond_then")
    /\ GenBecomes(gen_cond_then(GenSelf, GTop.else_label, GTop.end_label,
                                GTop.else_branch))
    /\ IF GTop.else_branch.some
       THEN /\ GenCalls(<<GBlock(GTop.else_branch.val), GCondElse(GTop.end_label)>>)
            /\ UNCHANGED returned
       ELSE /\ GenCalls(<<>>)
            /\ returned' = None
    /\ UNCHANGED <<gen_state, genRest>>

\* After the else block: the end label; None.
GenCondElse ==
    /\ GenAt("cond_else")
    /\ GenBecomes(emit_label(GenSelf, GTop.end_label))
    /\ GenCalls(<<>>)
    /\ returned' = None
    /\ UNCHANGED <<gen_state, genRest>>

\* visit_assign_expr: the value first.
GenAssignExpr ==
    /\ GenExprVisit("visit_assign_expr")
    /\ GenCalls(<<GExpr(GTop.expr.value), GAssignValue(GTop.expr.name)>>)
    /\ UNCHANGED <<instructions, tmp_var, tmp_label, returned, gen_state, genRest>>

\* After the value: unwrap, emit_assign_var(var_name, t); Some(var_name).
GenAssignValue ==
    /\ GenAt("assign_value")
    /\ IF ~returned.some THEN GenPanics
       ELSE /\ GenBecomes(emit_assign_var(GenSelf, GTop.name, returned.val))
            /\ GenCalls(<<>>)
            /\ returned' = Some(GTop.name)
            /\ UNCHANGED gen_state
    /\ UNCHANGED genRest

(***************************************************************************)
(* The modules handed to the code generator.  An identifier may start with *)
(* an underscore (lexer.rs:23-25), so `_t0` and `_L0` are names a module   *)
(* can use.                                                                *)
(***************************************************************************)
RetAB == StmtRet(Binary("Add", Var_("a"), Var_("b"), NoRegion), NoRegion)

GenExprs ==
    {Var_("a"), One,
     Lit([t |-> "Str", v |-> "s"], NoRegion),
     Lit([t |-> "Char", v |-> "a"], NoRegion),
     Unary("Neg", Var_("a"), NoRegion),
     Binary("Add", Var_("a"), Var_("b"), NoRegion),
     Call("f", <<>>, NoRegion),
     Call("f", <<Var_("a"), One>>, NoRegion),
     Assign("x", Var_("a"), NoRegion),
     Cond(Var_("a"), <<ExprStmt_(Var_("b"))>>, None, NoRegion),
     Cond(Var_("a"), <<>>, Some(<<ExprStmt_(Var_("b"))>>), NoRegion),
     Cond(Var_("a"), <<ExprStmt_(Var_("b"))>>, Some(<<ExprStmt_(One)>>), NoRegion),
     Cond(Var_("a"), <<ExprStmt_(Cond(Var_("b"), <<>>, None, NoRegion))>>, None,
          NoRegion),
     Call("f", <<Var_("a"), Call("g", <<Var_("b")>>, NoRegion)>>, NoRegion),
     Call("f", <<Cond(Var_("a"), <<>>, None, NoRegion)>>, NoRegion),
     Binary("Add", Assign("a", One, NoRegion), Var_("a"), NoRegion),
     Binary("Add", Var_("a"), Cond(Var_("a"), <<>>, None, NoRegion), NoRegion),
     Assign("x", Cond(Var_("a"), <<>>, None, NoRegion), NoRegion)}

GenStmts ==
    {ExprStmt_(e) : e \in GenExprs}
      \cup {RetAB, StmtRet(Var_("a"), NoRegion)}
      \cup {VarStmt_("x", One), VarStmt_("_t0", One),
            VarStmt_("x", Cond(Var_("a"), <<>>, None, NoRegion))}
      \cup {StmtBlock(<<VarStmt_("x", One)>>, NoRegion)}
      \cup {StmtFunc(Proto_("f", <<>>), <<RetAB>>, NoRegion),
            StmtFunc(Proto_("_L0", <<"a">>), <<>>, NoRegion)}
      \cup {StmtExtern(Proto_("f", <<>>), NoRegion), StmtImpt("m", NoRegion)}

\* CodeGenerator::new() and the call of gen(module).
InitGen ==
    /\ \E module \in SeqsUpTo(GenStmts, MaxStmts) : gen_frames = <<GGen(module)>>
    /\ instructions = CodeGenerator_new.instructions
    /\ tmp_var = CodeGenerator_new.tmp_var
    /\ tmp_label = CodeGenerator_new.tmp_label
    /\ returned = None
    /\ gen_state = "generating"
    /\ opt_in = <<>>
    /\ opt_idx = 1
    /\ available_exprs = EmptyMap
    /\ new_instructions = <<>>
    /\ once = <<>>
    /\ opt_state = "idle"
    /\ ParserIdle
    /\ ScopeIdle
    /\ LexIdle

NextGen ==
    \/ GenExprStmt \/ GenVarStmt \/ GenVarInit \/ GenFunc \/ GenBlock
    \/ GenBlockReturn \/ GenExtern \/ GenImpt \/ GenReturn
    \/ GenLitExpr \/ GenVariableExpr \/ GenUnaryExpr
    \/ GenBinaryExpr \/ GenBinaryLhs \/ GenBinaryRhs
    \/ GenCallExpr \/ GenCallArg
    \/ GenCondExpr \/ GenCondCondition \/ GenCondThen \/ GenCondElse
    \/ GenAssignExpr \/ GenAssignValue

SpecGen == InitGen /\ [][NextGen]_vars

(***************************************************************************)
(* gen() followed by optimized_intermediate_code() (codegen/mod.rs:132-144),*)
(* which hands the stored instructions to optimize(): the blocks between   *)
(* Ifz and Label go through elim_common_subexprs one instruction per step  *)
(* (ElimStep), and the Vec built is what is rendered.                      *)
(***************************************************************************)
\* `let instructions = self.optimize();` after gen() has returned.
CallOptimize ==
    /\ gen_state = "done"
    /\ opt_state = "idle"
    /\ opt_in' = instructions
    /\ opt_idx' = 1
    /\ available_exprs' = EmptyMap
    /\ new_instructions' = <<>>
    /\ opt_state' = "run1"
    /\ UNCHANGED <<instructions, once, parseVars, frontVars>>

\* optimize() returns new_instructions.
ReturnOptimized ==
    /\ gen_state = "done"
    /\ opt_state = "run1"
    /\ opt_idx > Len(opt_in)
    /\ opt_state' = "done"
    /\ UNCHANGED <<instructions, opt_in, opt_idx, available_exprs,
                   new_instructions, once, parseVars, frontVars>>

NextCompile == NextGen \/ CallOptimize \/ ElimStep \/ ReturnOptimized

SpecCompile == InitGen /\ [][NextCompile]_vars

(***************************************************************************)
(* The lexer (lexer.rs).  The source text is a sequence of characters out  *)
(* of letters, '_', a digit, a blank, ';' and '='; the arms of lex_token   *)
(* for other characters are left out.  Every character is one byte long,   *)
(* so an offset counts characters.                                         *)
(***************************************************************************)
MaxSource == 3

Letters == {"t", "L", "i", "f"}
Digits == {"0"}
Blanks == {" "}
SourceChars == Letters \cup Digits \cup Blanks \cup {"_", ";", "="}

\* char::is_ascii_alphabetic, is_ascii_digit, is_ascii_whitespace.
is_ascii_alphabetic(ch) == ch \in Letters
is_ascii_digit(ch) == ch \in Digits
is_ascii_whitespace(ch) == ch \in Blanks

is_ident_start(ch) == is_ascii_alphabetic(ch) \/ ch = "_"
is_ident_cont(ch) == is_ident_start(ch) \/ is_ascii_digit(ch)

\* A Lexer value: the two offsets and the tokens; the input is not changed.
Lexer(start, cur, toks) == [start |-> start, current |-> cur, tokens |-> toks]
Lexer_new == Lexer(0, 0, <<>>)

\* peek(): the character not eaten yet, '\0' at the end of the input.
lex_peek(self) ==
    IF self.current < Len(input) THEN input[self.current + 1] ELSE "NUL"
lex_is_eof(self) == self.current = Len(input)
\* eat(): the next character of the iterator, if there is one.
lex_eat(self) == IF lex_is_eof(self) THEN self ELSE [self EXCEPT !.current = @ + 1]

\* The text between two offsets, as a &str; name() makes it a Symbol with
\* that text.
RECURSIVE text(_)
text(chars) == IF chars = <<>> THEN "" ELSE Head(chars) \o text(Tail(chars))
slice(start, end) == text(SubSeq(input, start + 1, end))

add_token(self, kind, symbol, lit) ==
    [self EXCEPT !.tokens =
        Append(@, Token(kind, symbol, lit, Region_new(self.start, self.current)))]

next_is(self, c) == ~lex_is_eof(self) /\ lex_peek(self) = c
\* The lexer after next_is(c).
after_next_is(self, c) == IF next_is(self, c) THEN lex_eat(self) ELSE self

\* The loops `while <test>(self.peek()) { self.eat(); }`.
RECURSIVE eat_ident(_), eat_digits(_), eat_whitespace(_)
eat_ident(self) ==
    IF is_ident_cont(lex_peek(self)) THEN eat_ident(lex_eat(self)) ELSE self
eat_digits(self) ==
    IF is_ascii_digit(lex_peek(self)) THEN eat_digits(lex_eat(self)) ELSE self
eat_whitespace(self) ==
    IF is_ascii_whitespace(lex_peek(self)) /\ ~lex_is_eof(self)
    THEN eat_whitespace(lex_eat(self)) ELSE self

Keywords ==
    [func |-> "Func", extern |-> "Extern", var |-> "Var", if |-> "If",
     while |-> "While", else |-> "Else", ret |-> "Ret"]

\* identifier(), after its loop.
identifier_token(self, s) ==
    IF s \in DOMAIN Keywords THEN add_token(self, Keywords[s], "", "")
    ELSE add_token(self, "Ident", s, "")
identifier_slice(self) == identifier_token(self, slice(self.start, self.current))
identifier(self) == identifier_slice(eat_ident(self))

\* str::parse::<i64> of a run of the digits of the model.
RECURSIVE parse(_, _)
parse(chars, acc) ==
    IF chars = <<>> THEN acc
    ELSE parse(Tail(chars), 10 * acc + (CASE Head(chars) = "0" -> 0))

\* number(), after its loop; the input holds no '.'.
number_token(self) ==
    add_token(self, "Literal",
              parse(SubSeq(input, self.start + 1, self.current), 0), "Int")
number(self) == number_token(eat_digits(self))

\* lex_token(), after `let c = self.eat().unwrap();`.
lex_token_match(self, c) ==
    CASE is_ascii_whitespace(c) -> eat_whitespace(self)
      [] is_ident_start(c) -> identifier(self)
      [] is_ascii_digit(c) -> number(self)
      [] c = ";" -> add_token(self, "Semicolon", "", "")
      [] c = "=" ->
            IF next_is(self, "=")
            THEN add_token(after_next_is(self, "="), "DoubleEqual", "", "")
            ELSE add_token(self, "Equal", "", "")

lex_token(self) == lex_token_match(lex_eat(self), lex_peek(self))

LexSelf == Lexer(lex_start, lex_current, lex_tokens)
LexBecomes(self) ==
    /\ lex_start' = self.start
    /\ lex_current' = self.current
    /\ lex_tokens' = self.tokens

\* Lexer::new over a source text.
InitLex ==
    /\ input \in SeqsUpTo(SourceChars, MaxSource)
    /\ lex_start = Lexer_new.start
    /\ lex_current = Lexer_new.current
    /\ lex_tokens = Lexer_new.tokens
    /\ lex_state = "lexing"
    /\ OptimizerIdle
    /\ ParserIdle
    /\ ScopeIdle
    /\ GenIdle

\* lex(): one iteration of `while !self.is_eof()`.
LexToken ==
    /\ lex_state = "lexing"
    /\ ~lex_is_eof(LexSelf)
    /\ LexBecomes(lex_token([LexSelf EXCEPT !.start = lex_current]))
    /\ UNCHANGED <<input, lex_state, optVars, parseVars, scopeVars, genVars>>

\* lex() after the loop: add_token(Eof) and the return of the tokens.
LexReturn ==
    /\ lex_state = "lexing"
    /\ lex_is_eof(LexSelf)
    /\ LexBecomes(add_token(LexSelf, "Eof", "", ""))
    /\ lex_state' = "done"
    /\ UNCHANGED <<input, optVars, parseVars, scopeVars, genVars>>

NextLex == LexToken \/ LexReturn

SpecLex == InitLex /\ [][NextLex]_vars

(***************************************************************************)
(* Properties of the optimizer.                                            *)
(***************************************************************************)
\* The positions j < i of Assigns that carry the expr of the Assign at i and
\* lie in the basic block of i (no Ifz and no Label at j .. i-1).
EarlierEqual(l, i) ==
    {j \in 1..(i - 1) :
        /\ l[j].op = "Assign"
        /\ l[j].expr = l[i].expr
        /\ \A k \in j..(i - 1) : l[k].op \notin {"Ifz", "Label"}}

Least(S) == CHOOSE m \in S : \A n \in S : m <= n

\* C1: optimize(optimize(L)) = optimize(L), instruction for instruction: the
\* second application of the optimizer rewrites nothing.
C1_Idempotent == opt_state = "done" => new_instructions = once

\* C2: CSE is local to a basic block. An instruction the optimizer changed is
\* an Assign that now references the destination of an earlier Assign of its
\* own block carrying the same expr, and an Assign whose block holds no
\* earlier Assign of the same expr is left unchanged, whatever the blocks
\* before it computed.
C2_Locality ==
    \A i \in 1..Len(new_instructions) :
        LET inp == opt_in[i]
            out == new_instructions[i]
        IN /\ out # inp =>
                /\ inp.op = "Assign"
                /\ \E j \in EarlierEqual(opt_in, i) :
                      out = [op |-> "Assign", dest |-> inp.dest,
                             expr |-> [kind |-> "Primary",
                                       p |-> [k |-> "Var", v |-> opt_in[j].dest]]]
           /\ (inp.op = "Assign" /\ EarlierEqual(opt_in, i) = {}) => out = inp

\* Two equal computations with an Ifz or a Label between them, and no other
\* Assign of that expr in the list, have been optimized: both are unchanged.
C2_Witness ==
    /\ opt_state = "run2"
    /\ \E j \in 1..Len(instructions), i \in 1..Len(instructions) :
          /\ j < i
          /\ instructions[j].op = "Assign"
          /\ instructions[i].op = "Assign"
          /\ instructions[j].expr = instructions[i].expr
          /\ \E k \in (j + 1)..(i - 1) : instructions[k].op \in {"Ifz", "Label"}
          /\ once[j] = instructions[j]
          /\ once[i] = instructions[i]

\* C3: within a block, an Assign whose expr equals the expr of an earlier
\* Assign of the block is rewritten to reference the destination of the
\* EARLIEST such Assign, and every other Assign is unchanged; the output is a
\* function of the input.
C3_FirstProducer ==
    \A i \in 1..Len(new_instructions) :
        LET inp == opt_in[i]
            E == EarlierEqual(opt_in, i)
        IN inp.op = "Assign" =>
              new_instructions[i] =
                 IF E = {} THEN inp
                 ELSE [op |-> "Assign", dest |-> inp.dest,
                       expr |-> [kind |-> "Primary",
                                 p |-> [k |-> "Var", v |-> opt_in[Least(E)].dest]]]

\* C4: the optimizer neither deletes, inserts nor reorders. The output has the
\* length of the input, every instruction that is no Assign is unchanged at
\* its index, and every Assign keeps its index and its destination.
C4_Frame ==
    /\ Len(new_instructions) <= Len(opt_in)
    /\ opt_state = "done" => Len(new_instructions) = Len(opt_in)
    /\ opt_state \in {"run2", "done"} => Len(once) = Len(instructions)
    /\ \A i \in 1..Len(new_instructions) :
          /\ new_instructions[i].op = opt_in[i].op
          /\ opt_in[i].op # "Assign" => new_instructions[i] = opt_in[i]
          /\ opt_in[i].op = "Assign" => new_instructions[i].dest = opt_in[i].dest

\* An optimized list of three instructions in which an Assign was rewritten
\* and an instruction that is no Assign was carried over.
C4_Witness ==
    /\ opt_state = "run2"
    /\ Len(instructions) >= 3
    /\ \E i \in 1..Len(instructions) : once[i] # instructions[i]
    /\ \E i \in 1..Len(instructions) : instructions[i].op # "Assign"

(***************************************************************************)
(* Properties of the parser.                                               *)
(***************************************************************************)
IsOperandToken(t) == t.kind \in {"Ident", "Literal"}
\* `node` is the Variable or Lit parsed from the single token t.
IsOperandOf(node, t) ==
    /\ node.kind \in {"Variable", "Lit"}
    /\ node.region = t.region

\* tokens is `a op1 b op2 c ;` with single-token operands.
IsTwoOpChain ==
    /\ Len(tokens) = 7
    /\ \A i \in {1, 3, 5} : IsOperandToken(tokens[i])
    /\ \A i \in {2, 4} : tokens[i].kind \in BinOpKinds
    /\ tokens[6].kind = "Semicolon"

\* C5: two binary operators of equal precedence (BinOp::get_prec) associate
\* to the left: `a op1 b op2 c` parses to Binary(op2, Binary(op1, a, b), c).
C5_LeftAssoc ==
    (/\ pstate = "done"
     /\ IsTwoOpChain
     /\ get_prec(to_bin_op(tokens[2].kind)) = get_prec(to_bin_op(tokens[4].kind)))
    => /\ Len(decls) = 1
       /\ decls[1].st = "ok"
       /\ decls[1].node.kind = "Expr"
       /\ LET e == decls[1].node.expr
          IN /\ e.kind = "Binary"
             /\ e.bop = to_bin_op(tokens[4].kind)
             /\ IsOperandOf(e.rhs, tokens[5])
             /\ e.lhs.kind = "Binary"
             /\ e.lhs.bop = to_bin_op(tokens[2].kind)
             /\ IsOperandOf(e.lhs.lhs, tokens[1])
             /\ IsOperandOf(e.lhs.rhs, tokens[3])

\* tokens is `a op b ;` where a and b are a variable, a literal or a call.
OpPositions == {i \in 1..Len(tokens) : tokens[i].kind \in BinOpKinds}

\* C6: `a op b` parses to one Binary node that carries op and whose region
\* runs from the start of a to the end of b, for each of the thirteen
\* binary operators.
C6_BinaryRegion ==
    (pstate = "done" /\ Cardinality(OpPositions) = 1)
    => /\ Len(decls) = 1
       /\ decls[1].st = "ok"
       /\ decls[1].node.kind = "Expr"
       /\ LET e == decls[1].node.expr
              i == CHOOSE i \in OpPositions : TRUE
              last == tokens[Len(tokens) - 2]
          IN /\ e.kind = "Binary"
             /\ e.bop = to_bin_op(tokens[i].kind)
             /\ e.lhs.kind # "Binary"
             /\ e.rhs.kind # "Binary"
             /\ e.region.start = tokens[1].region.start
             /\ e.region.start + e.region.len = last.region.start + last.region.len

\* tokens is `x1 = x2 = ... = xn = e ;` with variables x1..xn and e a
\* variable or a literal.
IsAssignChain(n) ==
    /\ n >= 1
    /\ Len(tokens) = 2 * n + 3
    /\ \A i \in 1..n : tokens[2 * i - 1].kind = "Ident" /\ tokens[2 * i].kind = "Equal"
    /\ IsOperandToken(tokens[2 * n + 1])
    /\ tokens[2 * n + 2].kind = "Semicolon"

RECURSIVE RightNested(_, _, _)
RightNested(node, i, n) ==
    IF i > n THEN IsOperandOf(node, tokens[2 * n + 1])
    ELSE /\ node.kind = "Assign"
         /\ node.name = tokens[2 * i - 1].name
         /\ RightNested(node.value, i + 1, n)

\* C7: assignment is right-associative: `x1 = x2 = ... = xn = e;` parses to
\* Assign(x1, Assign(x2, ... Assign(xn, e))).
C7_AssignRightAssoc ==
    \A n \in 1..Len(tokens) :
        (pstate = "done" /\ IsAssignChain(n))
        => /\ Len(decls) = 1
           /\ decls[1].st = "ok"
           /\ decls[1].node.kind = "Expr"
           /\ RightNested(decls[1].node.expr, 1, n)

\* `a = b = c;` has been parsed.
C7_Witness ==
    /\ pstate = "done"
    /\ IsAssignChain(2)
    /\ <<tokens[1].name, tokens[3].name, tokens[5].name>> = <<"a", "b", "c">>
    /\ tokens[5].kind = "Ident"
    /\ decls[1].st = "ok"

C9_InvalidTarget ==
    \A p \in 1..Len(tokens) :
        LET lhs == conditional(p)
            value == assigment(lhs.pos + 1)
            r == assigment(p)
        IN (lhs.st = "ok" /\ tokens[lhs.pos].kind = "Equal")
           => /\ value.st # "ok" => r.st = value.st /\ r.msg = value.msg /\ r.pos = value.pos
              /\ (value.st = "ok" /\ lhs.node.kind # "Variable")
                 => /\ r.st = "err"
                    /\ r.msg = "invalid assignment target"
                    /\ r.node.kind = "None"
                    /\ r.pos = value.pos
              /\ (value.st = "ok" /\ lhs.node.kind = "Variable")
                 => r.st = "ok" /\ r.node.kind = "Assign" /\ r.node.name = lhs.node.name

\* `f() = c;` was refused: the target is a call.
C9_Witness ==
    /\ pstate = "done"
    /\ Len(tokens) = 7
    /\ tokens[2].kind = "OpenParen"
    /\ tokens[4].kind = "Equal"
    /\ Len(decls) = 1
    /\ decls[1].st = "err"
    /\ decls[1].msg = "invalid assignment target"

C11_SyncAdvances ==
    \A q \in 1..Len(tokens) :
        (~is_eof(q) /\ declaration_match(q).st = "err")
           => sync(declaration_match(q).pos) > declaration_match(q).pos

(***************************************************************************)
(* Properties of the scope checker.                                        *)
(***************************************************************************)
\* The step prints `line`.
Prints(line) ==
    \E k \in (Len(diagnostics) + 1)..Len(diagnostics') : diagnostics'[k] = line

\* The checker is inside the initializer of `var symbol = ...`: define(symbol)
\* waits, and every call above it is the call of an expression handler.
InInitializerOf(symbol) ==
    \E j \in 1..Len(frames) :
        /\ frames[j].pc = "define"
        /\ frames[j].name = symbol
        /\ \A k \in 1..(j - 1) : frames[k].pc \in {"walk_expr", "check_local"}

\* C12: a reference to x inside the initializer of `var x = e` makes the
\* checker print the self-reference diagnostic, at every nesting depth and
\* whether or not x is already bound by an outer scope.
C12_SelfReference ==
    [][(ExprVisit("visit_variable_expr") /\ InInitializerOf(Top.expr.name))
          => Prints(OwnInitializer)]_vars

\* A statement before position k of the list is `var symbol = ...`.
VarBefore(list, k, symbol) ==
    \E j \in 1..(k - 1) : list[j].kind = "Var" /\ list[j].name = symbol

\* C13: when a statement list (a block, or the top level) holds two `var x`
\* statements, the declare of the second one prints the redeclaration
\* diagnostic, and the checker goes on: the loop over the list stays where it
\* is, with the statements after the second `var x` still to come.
C13_Redeclaration ==
    [][(StmtVisit("visit_var_stmt") /\ VarBefore(Top.stmts, Top.i + 1, next_stmt.name))
          => /\ Prints(AlreadyExists(next_stmt.name))
             /\ sc_state' = "checking"
             /\ \E k \in 1..Len(frames') : frames'[k] = [Top EXCEPT !.i = @ + 1]]_vars

\* The second `var x` of a list has been checked and reported, and the loop is
\* about to visit the statement that follows it.
C13_Witness ==
    /\ CheckLoops
    /\ Top.i >= 2
    /\ Top.stmts[Top.i].kind = "Var"
    /\ VarBefore(Top.stmts, Top.i, Top.stmts[Top.i].name)
    /\ \E k \in 1..Len(diagnostics) :
           diagnostics[k] = AlreadyExists(Top.stmts[Top.i].name)

\* The statement declares `symbol`: a var, func or extern of that name.
Declares(s, symbol) ==
    \/ s.kind = "Var" /\ s.name = symbol
    \/ s.kind \in {"Func", "Extern"} /\ s.proto.name = symbol

DeclaredBefore(list, k, symbol) == \E j \in 1..(k - 1) : Declares(list[j], symbol)

\* The loop of check() on top runs over the body of a block or of a function
\* (its end_scope waits right below), and the list that holds that block or
\* function is frames[3].
InBody == Len(frames) >= 3 /\ frames[2].pc = "end_scope" /\ frames[3].pc = "check"
Encloser == frames[3].stmts[frames[3].i]
IsParamOfEncloser(symbol) ==
    /\ Encloser.kind = "Func"
    /\ \E k \in 1..Len(Encloser.proto.params) : Encloser.proto.params[k].name = symbol

\* C14: `var x` in the body of a block or function, where x is not bound by
\* that body (no earlier statement of the body declares it, it is no
\* parameter) but is declared by an earlier statement of an enclosing list:
\* declare prints no redeclaration diagnostic and puts x into the innermost
\* scope.
C14_InnermostOnly ==
    [][(/\ StmtVisit("visit_var_stmt")
        /\ InBody
        /\ ~DeclaredBefore(Top.stmts, Top.i + 1, next_stmt.name)
        /\ ~IsParamOfEncloser(next_stmt.name)
        /\ \E k \in 3..Len(frames) :
               /\ frames[k].pc = "check"
               /\ DeclaredBefore(frames[k].stmts, frames[k].i, next_stmt.name))
          => /\ ~Prints(AlreadyExists(next_stmt.name))
             /\ next_stmt.name \in DOMAIN scopes'[Len(scopes')]]_vars

\* The calls of end_scope that wait for a check() to return.
WaitingEndScopes == {k \in 1..Len(frames) : frames[k].pc = "end_scope"}

\* C15: the stack of scopes always holds the global scope; the scopes above it
\* are, one for one, the scopes whose end_scope is still to come (so every
\* end_scope pops the scope its own start_scope pushed), and when
\* check(module) has returned only the global scope is left.
C15_ScopeStack ==
    sc_state # "idle" =>
        /\ Len(scopes) >= 1
        /\ Len(scopes) = 1 + Cardinality(WaitingEndScopes)
        /\ sc_state = "done" => Len(scopes) = 1

\* The last statement of the module was a block or a function; its scope has
\* been pushed and popped again, and check(module) is about to return.
C15_Witness ==
    /\ Checking
    /\ Len(frames) = 1
    /\ Top.i = Len(Top.stmts)
    /\ Top.i >= 1
    /\ Top.stmts[Top.i].kind \in {"Block", "Func"}
    /\ Len(scopes) = 1

\* The checker is inside an expression statement of the top level: the only
\* running loop of check() is the one over the module.
InTopLevelExpr ==
    /\ frames[Len(frames)].pc = "check"
    /\ \A k \in 1..(Len(frames) - 1) : frames[k].pc \in {"walk_expr", "check_local"}

\* No statement of the top level before the running one declares `symbol`:
\* whatever declares it lies inside a block, a conditional branch or a
\* function body that has ended, or nothing declares it at all.
NotDeclaredAtTopLevel(symbol) ==
    ~DeclaredBefore(frames[Len(frames)].stmts, frames[Len(frames)].i, symbol)

\* C16: a variable reference or a call target in an expression statement of
\* the top level, whose name no earlier statement of the top level declares,
\* is reported as not defined; this includes a name declared only inside a
\* block, conditional branch or function body that ended before.
C16_NotDefined ==
    [][(/\ ExprVisit("visit_variable_expr") \/ ExprVisit("visit_call_expr")
        /\ InTopLevelExpr
        /\ NotDeclaredAtTopLevel(Top.expr.name))
          => Prints(NotDefined(Top.expr.name))]_vars

\* The names of the parameters of a prototype that differ from the name of
\* the function and from every parameter before them.
OwnParams(proto_) ==
    {proto_.params[k].name : k \in {n \in 1..Len(proto_.params) :
        /\ proto_.params[n].name # proto_.name
        /\ \A j \in 1..(n - 1) : proto_.params[j].name # proto_.params[n].name}}

\* C17: visiting a function of the top level declares its name in the
\* enclosing (global) scope, pushes one fresh scope and binds every parameter
\* in that scope as defined, with no redeclaration diagnostic for a
\* parameter, whatever other functions named their parameters.
C17_ParamsInFreshScope ==
    [][(StmtVisit("visit_func") /\ Len(frames) = 1)
          => /\ Len(scopes') = Len(scopes) + 1
             /\ next_stmt.proto.name \in DOMAIN scopes'[1]
             /\ \A param \in OwnParams(next_stmt.proto) :
                    /\ ~Prints(AlreadyExists(param))
                    /\ param \in DOMAIN scopes'[Len(scopes')]
                    /\ scopes'[Len(scopes')][param]]_vars

(***************************************************************************)
(* Properties of the code generator.                                       *)
(***************************************************************************)
\* The loop on top (of gen or of visit_block) has just finished a statement
\* of the given kind.
GenJustFinished(kind) ==
    /\ Generating
    /\ GTop.pc \in {"gen", "visit_block"}
    /\ GTop.i >= 1
    /\ GTop.stmts[GTop.i].kind = kind

\* `ret a + b;` is the body of the first statement of the module, `func f()`.
RetABInFunc ==
    /\ Len(gen_frames) = 2
    /\ GTop.stmts = <<RetAB>>
    /\ gen_frames[2].i = 1
    /\ gen_frames[2].stmts[1].kind = "Func"
    /\ gen_frames[2].stmts[1].proto.name = "f"

\* C18: when a `ret e` statement has been lowered, the instruction emitted
\* last is a Ret, it comes after the instructions of e and names the
\* destination of the Assign before it; for `func f() { ret a + b; }` the
\* instructions are the label, Assign(_t0, a), Assign(_t1, b),
\* Assign(_t2, _t0 + _t1), Ret(_t2).
C18_RetLowered ==
    GenJustFinished("Ret") =>
        /\ Len(instructions) >= 2
        /\ instructions[Len(instructions)].op = "Ret"
        /\ instructions[Len(instructions) - 1].op = "Assign"
              => instructions[Len(instructions)].value
                    = PVar(instructions[Len(instructions) - 1].dest)
        /\ RetABInFunc
              => instructions =
                    <<ILabel("f"),
                      IAssign("_t0", EPrimary(PVar("a"))),
                      IAssign("_t1", EPrimary(PVar("b"))),
                      IAssign("_t2", EBinary("Add", PVar("_t0"), PVar("_t1"))),
                      IRet(PVar("_t2"))>>

\* The Assigns of a list whose destination is `symbol`.
AssignsTo(list, symbol) ==
    {k \in 1..Len(list) : list[k].op = "Assign" /\ list[k].dest = symbol}

\* The counters never go down; a step that calls new_tmp_var finds the counter
\* at k-1, leaves it at k and emits an Assign to `_t{k-1}` last; the step that
\* calls new_tmp_label (twice, in visit_cond_expr) hands out `_L{k-1}` and
\* `_L{k}`.
CountersStep ==
    /\ tmp_var' >= tmp_var
    /\ tmp_label' >= tmp_label
    /\ tmp_var' # tmp_var
          => /\ tmp_var' = tmp_var + 1
             /\ instructions'[Len(instructions')].op = "Assign"
             /\ instructions'[Len(instructions')].dest = "_t" \o ToString(tmp_var)
    /\ tmp_label' # tmp_label
          => /\ tmp_label' = tmp_label + 2
             /\ gen_frames'[2].else_label = "_L" \o ToString(tmp_label)
             /\ gen_frames'[2].end_label = "_L" \o ToString(tmp_label + 1)

\* C19: the two counters only count up, the k-th call of new_tmp_var returns
\* `_t{k-1}` and the k-th call of new_tmp_label `_L{k-1}`, and every `_t{n}`
\* handed out so far is the destination of exactly one emitted Assign.
C19_Counters ==
    [][/\ CountersStep
       /\ \A n \in 0..(tmp_var' - 1) :
              Cardinality(AssignsTo(instructions', "_t" \o ToString(n))) = 1]_vars

(***************************************************************************)
(* Properties of the lexer.                                                *)
(***************************************************************************)
\* The names new_tmp_var and new_tmp_label can hand out, up to a counter.
GeneratedNames(most) ==
    {tmp_var_name(n) : n \in 0..most} \cup {label_name(n) : n \in 0..most}

\* C20: no Ident token of the lexer starts with '_' in the source text, and
\* the name of no Ident token is a name the code generator makes.
C20_NoUnderscoreIdent ==
    \A k \in 1..Len(lex_tokens) :
        lex_tokens[k].kind = "Ident"
           => /\ input[lex_tokens[k].region.start + 1] # "_"
              /\ lex_tokens[k].name \notin GeneratedNames(MaxSource)

\* The Assign that lowers a variable or a literal into the temporary `_t{n}`.
AtomCode(e, n) ==
    IAssign(tmp_var_name(n),
            IF e.kind = "Variable" THEN EPrimary(PVar(e.name))
            ELSE EPrimary(PConst(e.lit)))
IsAtom(e) == e.kind = "Variable" \/ (e.kind = "Lit" /\ e.lit.t # "Char")
\* A block of expression statements, each a variable or a literal.
IsAtomBlock(list) ==
    \A k \in 1..Len(list) : list[k].kind = "Expr" /\ IsAtom(list[k].expr)
BlockCode(list, n) == [k \in 1..Len(list) |-> AtomCode(list[k].expr, n + k - 1)]
\* A conditional whose condition is a variable or a literal and whose
\* branches are such blocks.
IsPlainCond(e) ==
    /\ e.kind = "Cond"
    /\ IsAtom(e.condition)
    /\ IsAtomBlock(e.then_branch)
    /\ e.else_branch.some => IsAtomBlock(e.else_branch.val)
\* The first statement of the module, once its lowering has returned to gen().
FirstLowered == Generating /\ Len(gen_frames) = 1 /\ GTop.i >= 1
FirstStmt == GTop.stmts[1]
\* The order of C21 for a plain conditional that is lowered first.
CondOrder(e) ==
    <<AtomCode(e.condition, 0), IIfz(PVar("_t0"), "_L0")>>
      \o BlockCode(e.then_branch, 1)
      \o (IF e.else_branch.some THEN <<IGoto("_L1")>> ELSE <<>>)
      \o <<ILabel("_L0")>>
      \o (IF e.else_branch.some
          THEN BlockCode(e.else_branch.val, 1 + Len(e.then_branch)) \o <<ILabel("_L1")>>
          ELSE <<>>)

\* C21: a conditional is lowered to the instructions of its condition,
\* Ifz(condition_temp, else_label), the instructions of the then block,
\* Goto(end_label) only with an else block, Label(else_label), and with an else
\* block its instructions and Label(end_label); the lowering returns None.
C21_CondLowered ==
    (FirstLowered /\ FirstStmt.kind = "Expr" /\ IsPlainCond(FirstStmt.expr))
       => /\ Len(instructions) >= Len(CondOrder(FirstStmt.expr))
          /\ SubSeq(instructions, 1, Len(CondOrder(FirstStmt.expr)))
                = CondOrder(FirstStmt.expr)
          /\ GTop.i = 1 => (returned = None /\ instructions = CondOrder(FirstStmt.expr))

\* `if a { b; } else { 1; }` has been lowered.
C21_Witness ==
    /\ FirstLowered
    /\ FirstStmt.kind = "Expr"
    /\ IsPlainCond(FirstStmt.expr)
    /\ FirstStmt.expr.else_branch.some
    /\ FirstStmt.expr.then_branch # <<>>
    /\ FirstStmt.expr.else_branch.val # <<>>
    /\ GTop.i = 1

\* C22: code generation is total: for every module, gen() runs to completion
\* and returns; no handler aborts (todo!(), unwrap of a None).
C22_GenTotal == gen_state # "panicked"

\* The identifiers of an expression, of a statement and of a statement list.
RECURSIVE ExprNames(_), StmtNames(_)
BlockNames(list) == UNION {StmtNames(list[k]) : k \in 1..Len(list)}
ExprNames(e) ==
    CASE e.kind = "Lit" -> {}
      [] e.kind = "Variable" -> {e.name}
      [] e.kind = "Unary" -> ExprNames(e.rhs)
      [] e.kind = "Binary" -> ExprNames(e.lhs) \cup ExprNames(e.rhs)
      [] e.kind = "Call" ->
            {e.name} \cup UNION {ExprNames(e.args[k]) : k \in 1..Len(e.args)}
      [] e.kind = "Cond" ->
            ExprNames(e.condition) \cup BlockNames(e.then_branch)
              \cup (IF e.else_branch.some THEN BlockNames(e.else_branch.val) ELSE {})
      [] e.kind = "Assign" -> {e.name} \cup ExprNames(e.value)
ProtoNames(proto_) ==
    {proto_.name} \cup {proto_.params[k].name : k \in 1..Len(proto_.params)}
StmtNames(s) ==
    CASE s.kind \in {"Expr", "Ret"} -> ExprNames(s.expr)
      [] s.kind = "Var" -> {s.name} \cup ExprNames(s.expr)
      [] s.kind = "Block" -> BlockNames(s.stmts)
      [] s.kind = "Func" -> ProtoNames(s.proto) \cup BlockNames(s.stmts)
      [] s.kind = "Extern" -> ProtoNames(s.proto)
      [] s.kind = "Impt" -> {}

\* Every statement of the module is lowered: gen() has only optimize_mut left.
AllLowered == GenAt("gen") /\ GTop.i = Len(GTop.stmts)
\* No identifier of the module is a name the generator makes; every such name
\* starts with `_`, so a module without `_` identifiers is of this kind.
NoGeneratedName ==
    BlockNames(GTop.stmts) \cap GeneratedNames(Len(instructions)) = {}
LabelsNamed(list, label) ==
    {j \in 1..Len(list) : list[j].op = "Label" /\ list[j].name = label}
Jumps(list) == {i \in 1..Len(list) : list[i].op \in {"Ifz", "Goto"}}

\* C26: in the list generated for a module whose identifiers do not start
\* with `_`, every label an Ifz or Goto targets is defined by exactly one
\* Label, and that Label comes later in the list than the jump.
C26_ForwardJumps ==
    (AllLowered /\ NoGeneratedName)
       => \A i \in Jumps(instructions) :
             /\ Cardinality(LabelsNamed(instructions, instructions[i].label)) = 1
             /\ \A j \in LabelsNamed(instructions, instructions[i].label) : j > i

\* Two conditionals are lowered, one of them with an else block.
C26_Witness ==
    /\ AllLowered
    /\ NoGeneratedName
    /\ Cardinality({i \in Jumps(instructions) : instructions[i].op = "Ifz"}) >= 2
    /\ \E i \in Jumps(instructions) : instructions[i].op = "Goto"

\* The calls of an expression made of variables, literals and calls, in the
\* order in which their Assigns are emitted: the calls of the arguments from
\* left to right, then the call itself.
RECURSIVE CallsOf(_), ArgCalls(_, _)
ArgCalls(args, k) ==
    IF k > Len(args) THEN <<>> ELSE CallsOf(args[k]) \o ArgCalls(args, k + 1)
CallsOf(e) ==
    IF e.kind = "Call"
    THEN ArgCalls(e.args, 1) \o <<[name |-> e.name, n |-> Len(e.args)]>>
    ELSE <<>>
RECURSIVE IsCallTree(_)
IsCallTree(e) ==
    \/ IsAtom(e)
    \/ e.kind = "Call" /\ \A k \in 1..Len(e.args) : IsCallTree(e.args[k])
\* The Assigns of a list whose right-hand side is a Call, in order.
CallAssigns(list) ==
    {i \in 1..Len(list) : list[i].op = "Assign" /\ list[i].expr.kind = "Call"}
RECURSIVE Sorted(_)
Sorted(S) == IF S = {} THEN <<>> ELSE <<Least(S)>> \o Sorted(S \ {Least(S)})
\* The Args between the Call assignment before position i (or the start of
\* the list) and position i.
ArgsBefore(list, i) ==
    {m \in 1..(i - 1) :
        /\ list[m].op = "Arg"
        /\ \A c \in CallAssigns(list) : ~(m < c /\ c < i)}

\* C30: the Args of a call are paired with it: the Assign of a call with n
\* arguments has exactly n Args between the previous Call assignment (or the
\* start of the list) and itself, each naming the argument lowered just
\* before it, also when an argument is itself a call.
C30_ArgsPaired ==
    (FirstLowered /\ GTop.i = 1 /\ FirstStmt.kind = "Expr"
       /\ FirstStmt.expr.kind = "Call" /\ IsCallTree(FirstStmt.expr))
       => /\ Len(Sorted(CallAssigns(instructions))) = Len(CallsOf(FirstStmt.expr))
          /\ \A k \in 1..Len(CallsOf(FirstStmt.expr)) :
                /\ instructions[Sorted(CallAssigns(instructions))[k]].expr.name
                      = CallsOf(FirstStmt.expr)[k].name
                /\ Cardinality(ArgsBefore(instructions,
                                          Sorted(CallAssigns(instructions))[k]))
                      = CallsOf(FirstStmt.expr)[k].n
          /\ \A m \in 1..Len(instructions) :
                instructions[m].op = "Arg"
                   => /\ m > 1
                      /\ instructions[m - 1].op = "Assign"
                      /\ instructions[m].value = PVar(instructions[m - 1].dest)

(***************************************************************************)
(* Properties of gen() followed by optimize().                             *)
(***************************************************************************)
\* optimize() has returned its Vec for the list that gen() left.
Compiled == gen_state = "done" /\ opt_state = "done"

\* C23: after gen(module) the stored list is the optimized list: it equals
\* what per-block common-subexpression elimination makes of the emitted
\* instructions, so intermediate_code() and optimized_intermediate_code()
\* render the same instructions.
C23_StoredIsOptimized == Compiled => instructions = new_instructions

\* C28: the optimizer removes no function call: the optimized list has as
\* many Assigns with a Call right-hand side as the emitted list, and every
\* such Assign is left as it is, also when one function is called twice in
\* a basic block.
C28_CallsKept ==
    Compiled =>
        /\ Cardinality(CallAssigns(new_instructions)) = Cardinality(CallAssigns(opt_in))
        /\ \A i \in CallAssigns(opt_in) : new_instructions[i] = opt_in[i]

\* The value of a literal; an integer is kept as it is written.
IntOf(c) == CASE c.v = "1" -> 1 [] c.v = "97" -> 97 [] c.v = "55" -> 55
ConstValue(c) == IF c.t = "Int" THEN [t |-> "Int", n |-> IntOf(c)] ELSE [t |-> "Str", s |-> c.v]
PrimaryValue(p, env) == IF p.k = "Var" THEN env[p.v] ELSE ConstValue(p.v)
\* The value of a right-hand side without a call: `+` of two integers is
\* their sum, every other operation is the term built from its operands.
BinaryValue(op, l, r) ==
    IF op = "Add" /\ l.t = "Int" /\ r.t = "Int"
    THEN [t |-> "Int", n |-> l.n + r.n]
    ELSE [t |-> "Op", bop |-> op, lhs |-> l, rhs |-> r]
ExprValue(expr, env) ==
    IF expr.kind = "Primary" THEN PrimaryValue(expr.p, env)
    ELSE BinaryValue(expr.bop, PrimaryValue(expr.lhs, env), PrimaryValue(expr.rhs, env))
\* The variables after executing a list of Assigns from `env`.
RECURSIVE Exec(_, _, _)
Exec(list, k, env) ==
    IF k > Len(list) THEN env
    ELSE Exec(list, k + 1, [env EXCEPT ![list[k].dest] = ExprValue(list[k].expr, env)])
\* A basic block of Assigns without a call.
StraightLine(list) ==
    \A k \in 1..Len(list) : list[k].op = "Assign" /\ list[k].expr.kind # "Call"
Reads(expr) ==
    IF expr.kind = "Primary" THEN (IF expr.p.k = "Var" THEN {expr.p.v} ELSE {})
    ELSE {p.v : p \in {q \in {expr.lhs, expr.rhs} : q.k = "Var"}}
NamesOf(list) ==
    UNION {{list[k].dest} \cup Reads(list[k].expr) : k \in 1..Len(list)}
\* The names a list reads before it assigns them: their initial value counts.
ReadFirst(list) ==
    {v \in NamesOf(list) :
        \E k \in 1..Len(list) :
            /\ v \in Reads(list[k].expr)
            /\ \A j \in 1..(k - 1) : list[j].dest # v}
\* The initial assignments: 0 or 1 for every name read first, 0 otherwise.
Envs(list) ==
    {[v \in NamesOf(list) |-> [t |-> "Int", n |-> IF v \in ones THEN 1 ELSE 0]] :
        ones \in SUBSET ReadFirst(list)}

\* C27: for a basic block without a call that the generator emits, and for
\* every initial assignment, executing the optimized block leaves every
\* variable and temporary with the value the emitted block leaves.
C27_CsePreservesMeaning ==
    (Compiled /\ StraightLine(opt_in))
       => \A env \in Envs(opt_in) :
             Exec(new_instructions, 1, env) = Exec(opt_in, 1, env)

(***************************************************************************)
(* Properties of the parser's error recovery and of its cursor.            *)
(***************************************************************************)
DeclKeywords == {"Extern", "Func", "Var", "If", "Ret"}
\* sync() called at the cursor p returns at the cursor s: it stops at Eof,
\* after a `;` it discarded, or before a keyword, and of the tokens p..s-1 it
\* discarded only the first may follow a `;` or be one of the keywords.
SyncStops(p, s) ==
    /\ s \in p..Len(tokens)
    /\ \/ is_eof(s)
       \/ (s > p /\ previous(s).kind = "Semicolon")
       \/ peek(s).kind \in DeclKeywords
    /\ \A m \in (p + 1)..(s - 1) :
          /\ previous(m).kind # "Semicolon"
          /\ peek(m).kind \notin DeclKeywords
\* The cursor at which declaration() calls sync() when it starts at q.
SyncCalledAt(q) == {d.pos : d \in {e \in {declaration_match(q)} : e.st = "err"}}

\* C24: when sync returns, the parser is at Eof, or the last token discarded
\* is a `;`, or the next token is one of extern, func, var, if, ret; apart
\* from the first token, sync discards no token that follows a `;` and none
\* of those keywords.
C24_SyncStops ==
    \A q \in 1..Len(tokens) :
        ~is_eof(q) => \A p \in SyncCalledAt(q) : SyncStops(p, sync(p))

\* parse() has just recorded an Err, and its sync() discarded at least two
\* tokens and stopped after a `;` that is not the last token.
C24_Witness ==
    /\ pstate = "parsing"
    /\ decls # <<>>
    /\ decls[Len(decls)].st = "err"
    /\ previous(current).kind = "Semicolon"
    /\ ~is_eof(current)
    /\ \E q \in 1..Len(tokens) :
          \E p \in SyncCalledAt(q) : sync(p) = current /\ current >= p + 2

\* A parsing function that started at the cursor q returned r: it did not
\* panic (no index out of bounds, no failed assertion), it left the cursor
\* between q and Eof, and with Ok it consumed a token, so that previous()
\* after it reads a token of the sequence.
CursorSafe(q, r) ==
    /\ r.st # "panic"
    /\ r.pos \in q..Len(tokens)
    /\ r.st = "ok" => r.pos > q

\* C25: for a token sequence that ends with its only Eof, the parser reads
\* no token outside the sequence: the cursor stays between the first token
\* and Eof, previous() is not evaluated at the first token, look_ahead(1) is
\* evaluated (at an Ident) only where a next token exists, and the assertion
\* of block() holds wherever block() is called.
C25_CursorInRange ==
    /\ pstate # "panicked"
    /\ pstate \in {"parsing", "done"} => InRange(current)
    /\ \A q \in 1..Len(tokens) :
          /\ peek(q).kind = "Ident" => (~is_eof(q) /\ InRange(q + 1))
          /\ CursorSafe(q, expression(q))
          /\ ~is_eof(q) => CursorSafe(q, declaration(q))

\* parse() has returned a function with a block and a call statement.
C25_Witness ==
    /\ pstate = "done"
    /\ \E k \in 1..Len(decls) : decls[k].st = "ok" /\ decls[k].node.kind = "Func"
    /\ \E k \in 1..Len(decls) :
          /\ decls[k].st = "ok"
          /\ decls[k].node.kind = "Expr"
          /\ decls[k].node.expr.kind = "Call"

\* The declaration at the cursor is a block statement `{ ...` whose first
\* statement fails to parse: block() calls declaration() for it, which calls
\* sync() and returns the Err.
FirstNestedFails(q) ==
    /\ peek(q).kind = "OpenBrace"
    /\ ~check(q + 1, "CloseBrace")
    /\ ~is_eof(q + 1)
    /\ declaration(q + 1).st = "err"

\* `{ a + ; b ; } c ;`: one syntax error, the missing operand of `+`.
NestedErrorSource ==
    Lexed(<<Lx("OpenBrace"), Id("a"), Lx("Plus"), Lx("Semicolon"), Id("b"),
            Lx("Semicolon"), Lx("CloseBrace"), Id("c"), Lx("Semicolon")>>)

\* C29: sync runs once for a statement that fails inside a block: when
\* parse() is at a block statement whose first statement fails, the failed
\* declaration leaves the cursor where the sync() of the nested statement
\* left it, at the first synchronization point after the error; and the one
\* syntax error of `{ a + ; b ; } c ;` gives one Err in the result of parse().
C29_SyncOnce ==
    /\ (pstate = "parsing" /\ FirstNestedFails(current))
          => declaration(current).pos = declaration(current + 1).pos
    /\ (pstate = "done" /\ tokens = NestedErrorSource)
          => Cardinality({k \in 1..Len(decls) : decls[k].st = "err"}) = 1

====
